---- MODULE Spec2Model ----
(***************************************************************************)
(* A model of the tmigo Twitch chat client: the connection lifecycle       *)
(* (Connect, the read loop, handleError, Disconnect, reconnect backoff),   *)
(* the dispatcher's room/moderator/user state, the keep-alive timers and   *)
(* the delayed command Queue.                                              *)
(*                                                                         *)
(* Durations are whole time units; Go's time.Duration is an integer count  *)
(* of nanoseconds and float64 -> Duration conversion truncates, which      *)
(* Trunc models with integer division.  The decay factor is the rational   *)
(* ReconnectDecayNum / ReconnectDecayDen.                                  *)
(***************************************************************************)
EXTENDS Integers, Sequences, FiniteSets, TLC

\* ------------------------------------------------------------------ bounds
\* Number of socket objects that may be alive at once.
MaxConns == 2
\* Largest configured maximum-attempt count the model enumerates.
MaxAttemptsBound == 2
\* Largest number of Connect() calls counted between two final welcomes.
MaxConnects == 4
\* Longest joined-rooms sequence the model lets the dispatcher build.
MaxChannels == 3
\* Most ping-timeout timers that are pending but no longer referenced.
MaxStalePings == 1
\* Most queue-advance timers of join queues pending at once.
MaxJoinTimers == 1

\* Most items added to the stand-alone Queue.
MaxItems == 3
\* Largest explicit delay given to Queue.Add, and largest NewQueue argument.
MaxDelay == 2
\* Most payloads of one sendMessage call that are kept in say.out.
MaxFrames == 4
\* Longest line given to ParseMessage out of every line over its alphabet.
MaxLineLen == 5
\* Longest text given to EscapeIRC and UnescapeIRC.
MaxTagLen == 4
\* Longest string given to Channel and Username as characters.
MaxNameLen == 4
\* Most listeners made, and most Emit calls made.
MaxHandlers == 2
MaxEmits == 2

\* ------------------------------------------------------------- vocabulary
Nil == "nil"
\* state.ws holding no socket (a nil *websocket.Conn).
NoConn == 0
ConnIds == 1..MaxConns
GlobalDefaultChannel == "#tmijs"
Rooms == {"#a", GlobalDefaultChannel}
Me == "me"
Users == {Me, "bob"}

Min(a, b) == IF a <= b THEN a ELSE b
Max(a, b) == IF a >= b THEN a ELSE b

\* time.Duration(float64(d) * decay): the product truncated toward zero.
Trunc(d, num, den) == (d * num) \div den

\* The caller-supplied ClientOptions the model enumerates.  Reconnect is the
\* caller's reconnect enable flag; anon says that no username was given, so
\* that NewClient generates a justinfan identity.
BackoffOptions ==
    { [ReconnectInterval |-> 2, ReconnectDecayNum |-> 3, ReconnectDecayDen |-> 2,
       MaxReconnectInterval |-> 4],
      [ReconnectInterval |-> 1, ReconnectDecayNum |-> 3, ReconnectDecayDen |-> 2,
       MaxReconnectInterval |-> 3],
      [ReconnectInterval |-> 3, ReconnectDecayNum |-> 3, ReconnectDecayDen |-> 2,
       MaxReconnectInterval |-> 2] }

DefaultBackoff ==
    [ReconnectInterval |-> 2, ReconnectDecayNum |-> 3, ReconnectDecayDen |-> 2,
     MaxReconnectInterval |-> 4]

\* The options of the lifecycle specification: every backoff setting and
\* every attempt limit with the reconnect flag set, and the flag cleared
\* with one backoff setting; an authenticated identity with one configured
\* room.
ClientOptions ==
    { [Backoff |-> b, Reconnect |-> TRUE, MaxReconnectAttempts |-> m,
       anon |-> FALSE, Channels |-> <<"#a">>, JoinInterval |-> 0] :
        b \in BackoffOptions, m \in 1..MaxAttemptsBound }
    \cup { [Backoff |-> DefaultBackoff, Reconnect |-> FALSE, MaxReconnectAttempts |-> 1,
             anon |-> FALSE, Channels |-> <<"#a">>, JoinInterval |-> 0] }

\* The join intervals (Options.JoinInterval, in milliseconds) the model
\* enumerates: none given, and one below the 376 handler's minimum.
JoinIntervals == {0, 100}

\* The options of the dispatcher specification: anonymous and authenticated
\* identities, with and without a configured room.
RoomOptions ==
    { [Backoff |-> DefaultBackoff, Reconnect |-> TRUE, MaxReconnectAttempts |-> 1,
       anon |-> a, Channels |-> c, JoinInterval |-> j] :
        a \in BOOLEAN, c \in {<<>>, <<"#a">>}, j \in JoinIntervals }

VARIABLES
    opts,            \* the ClientOptions the client was constructed with
    optsChannels,    \* opts.Channels (configured rooms; PART removes from it)
    reconnect,       \* state.reconnect
    reconnections,   \* state.reconnections, the attempt counter
    reconnectTimer,  \* state.reconnectTimer, the current backoff interval
    reconnecting,    \* state.reconnecting
    wasCloseCalled,  \* state.wasCloseCalled
    ws,              \* state.ws: NoConn or the socket in use
    sock,            \* per socket: "free", "open" or "closed" (reads fail)
    loopPc,          \* per read loop: "none", "select" (before the ctx check), "read",
                     \* or "dispatch" (ReadMessage returned, handleMessage under way)
    loopRd,          \* per read loop: the socket its ReadMessage is blocked on
    ctxDone,         \* the client context has been cancelled
    timers,          \* pending reconnect time.AfterFunc timers
    connects,        \* Connect() calls since construction or the last 376
    channels,        \* state.channels, the joined-rooms sequence
    userState,       \* the keys of state.userState
    moderators,      \* state.moderators: room -> sequence of user names
    globalUserState, \* "empty" or "set"
    promoted,        \* per room: the users promoted (MODE +o, or the client by a
                     \* USERSTATE with user-type mod) and not demoted by MODE -o
                     \* or cleared by the failure path since
    roomSeen,        \* per room: the slow and followers-only tags the last
                     \* ROOMSTATE that carried them had ("none" before the first)
    acked,           \* rooms whose self-join was acknowledged and not parted since
    welcomed,        \* per socket: the 376 has been dispatched on it
    pingLoop,        \* state.pingLoop: Nil, "running" or "stopped"
    pingTimeout,     \* state.pingTimeout: Nil, "done" (stopped or fired), or pending:
                     \* "ticker" (armed by the ping loop) or "Ping" (armed by Ping())
    stalePings,      \* pending ping-timeout timers state.pingTimeout no longer names
    joinTimers,      \* pending queue-advance timers of join queues: the rooms left,
                     \* the timer's delay, and the socket of the connection whose
                     \* 376 built the queue (NoConn once that socket object is gone)
    events,          \* the events emitted by the last step, in order
    written,         \* the frames written to a socket by the last step, in order
    op,              \* the operation the last step ran
    ret,             \* what it returned: "ok", "err" or "none", or "panic" for
                     \* a nil pointer dereference
    callerClosed,    \* the caller's Disconnect() has closed a socket at least once
    pingsOut,        \* PING frames sent and not yet answered by a dispatched PONG
    say,             \* the sendMessage call under way or last made: the text it
                     \* was given, the part it has yet to send, the payloads it
                     \* wrote (the first MaxFrames of them), and "idle", "sleep"
                     \* (in time.Sleep between two parts), "rest" (the sleep
                     \* is over, the rest is yet to be sent), "checked" (past
                     \* the isConnected check, before WriteMessage) or "done"
    mu,              \* Client.mu: "free", or the accessor that holds its read lock
                     \* (a holder of the write lock is one step and shows in no state)
    q_queue,         \* Queue.queue: the items, each with its delay (0: none given)
                     \* and whether Add was given a delay argument
    q_index,         \* Queue.index, the cursor (counted from 0)
    q_defaultDelay,  \* Queue.defaultDelay
    q_timers,        \* pending time.AfterFunc timers that will call Next()
    q_calls,         \* Next() invocations under way: "fn" (item.fn runs) or "sched"
    q_executed,      \* the items whose fn was started, in order (by position)
    q_started,       \* Next() has been invoked from outside
    q_arg,           \* the defaultDelay argument NewQueue was called with
    q_clock,         \* time units passed since the last item's fn was started
    q_op,            \* the Queue operation the last step ran
    e_events,        \* EventEmitter.events: event type -> sequence of listeners
    e_made,          \* every listener made so far; a listener's id is its place
    e_emits,         \* per goroutine: its Emit call (event, argument, the list
                     \* registered when it started, the copy it iterates, the
                     \* listeners it invoked) and "idle", "loop" or "done"
    e_count,         \* per listener id: how often the caller's function ran
    e_emitted,       \* the number of Emit calls made
    e_op,            \* the EventEmitter operation the last step ran
    e_arg,           \* its event type and listener id
    input,           \* the argument a parser or converter function is called with
    output,          \* what the function returned
    fn               \* the function that was called ("none" before the call)

connVars == <<ws, sock, loopPc, loopRd, ctxDone, welcomed>>
backoffVars == <<reconnect, reconnections, reconnectTimer, reconnecting, timers, connects>>
roomVars == <<channels, userState, moderators, globalUserState, acked, optsChannels,
             promoted, roomSeen>>
pingVars == <<pingLoop, pingTimeout, stalePings>>
outVars == <<events, written, op, ret>>
clientVars == <<opts, connVars, backoffVars, wasCloseCalled, roomVars, pingVars,
                joinTimers, outVars, callerClosed, pingsOut, mu, say>>
queueVars == <<q_queue, q_index, q_defaultDelay, q_timers, q_calls, q_executed,
               q_started, q_arg, q_clock, q_op>>
emitterVars == <<e_events, e_made, e_emits, e_count, e_emitted, e_op, e_arg>>
pureVars == <<input, output, fn>>
vars == <<clientVars, queueVars, emitterVars, pureVars>>

NoModerators == [r \in Rooms |-> <<>>]

\* ---------------------------------------------------------------- NewClient
\* NewClient: the state after construction.  Line 83 sets
\* opts.Connection.Reconnect to true whatever the caller passed.
NewClientReconnect(o) == TRUE

\* NewClient, lines 48-50: a zero JoinInterval becomes 2000 ms.
DefaultJoinInterval == 2000

NewClientJoinInterval(o) ==
    IF o.JoinInterval = 0 THEN DefaultJoinInterval ELSE o.JoinInterval

InitWith(options) ==
    /\ opts \in options
    /\ optsChannels = opts.Channels
    /\ reconnect = NewClientReconnect(opts)
    /\ reconnections = 0
    /\ reconnectTimer = opts.Backoff.ReconnectInterval
    /\ reconnecting = FALSE
    /\ wasCloseCalled = FALSE
    /\ ws = NoConn
    /\ sock = [i \in ConnIds |-> "free"]
    /\ loopPc = [i \in ConnIds |-> "none"]
    /\ loopRd = [i \in ConnIds |-> NoConn]
    /\ ctxDone = FALSE
    /\ timers = <<>>
    /\ connects = 0
    /\ channels = <<>>
    /\ userState = {}
    /\ moderators = NoModerators
    /\ promoted = [r \in Rooms |-> {}]
    /\ roomSeen = [r \in Rooms |-> [slow |-> "none", followers |-> "none"]]
    /\ globalUserState = "empty"
    /\ acked = {}
    /\ welcomed = [i \in ConnIds |-> FALSE]
    /\ pingLoop = Nil
    /\ pingTimeout = Nil
    /\ stalePings = <<>>
    /\ joinTimers = <<>>
    /\ events = <<>>
    /\ written = <<>>
    /\ op = "NewClient"
    /\ ret = "none"
    /\ callerClosed = FALSE
    /\ pingsOut = 0
    /\ mu = "free"
    /\ say = [text |-> <<>>, rest |-> <<>>, out |-> <<>>, pc |-> "idle"]

\* The fallback of NewQueue for a zero default delay (3 * time.Second).
QueueFallbackDelay == 3

\* NewQueue(defaultDelay).
NewQueue(defaultDelay) ==
    /\ q_queue = <<>>
    /\ q_index = 0
    /\ q_defaultDelay = IF defaultDelay = 0 THEN QueueFallbackDelay ELSE defaultDelay
    /\ q_timers = <<>>
    /\ q_calls = <<>>
    /\ q_executed = <<>>
    /\ q_started = FALSE
    /\ q_arg = defaultDelay
    /\ q_clock = 0
    /\ q_op = "NewQueue"

\* NewEventEmitter(): no listeners.
EventTypes == {"message", "join"}
EmitArgs == {"x", "y"}
\* The goroutines that call Emit.
Goroutines == {"g1", "g2"}
IdleEmit == [pc |-> "idle"]

NewEventEmitter ==
    /\ e_events = [t \in EventTypes |-> <<>>]
    /\ e_made = <<>>
    /\ e_emits = [g \in Goroutines |-> IdleEmit]
    /\ e_count = [k \in 1..MaxHandlers |-> 0]
    /\ e_emitted = 0
    /\ e_op = "NewEventEmitter"
    /\ e_arg = [type |-> "", id |-> 0]

\* No parser or converter function is under study.
NoCall ==
    /\ input = <<>>
    /\ output = <<>>
    /\ fn = "none"

Init == InitWith(ClientOptions) /\ NewQueue(0) /\ NewEventEmitter /\ NoCall

InitRooms == InitWith(RoomOptions) /\ NewQueue(0) /\ NewEventEmitter /\ NoCall

\* ------------------------------------------------------------------ helpers
isConnected == ws # NoConn

IsJustinfan == opts.anon

InSeq(s, x) == \E k \in 1..Len(s) : s[k] = x

RemoveAt(s, k) == [j \in 1..(Len(s) - 1) |-> IF j < k THEN s[j] ELSE s[j + 1]]

\* A socket object nothing refers to any more: no read loop was started for it
\* or is blocked on it, and state.ws does not hold it open.
Unreferenced(i) ==
    /\ loopPc[i] = "none"
    /\ \A j \in ConnIds : ~(loopPc[j] \in {"read", "dispatch"} /\ loopRd[j] = i)
    /\ (ws = i => sock[i] # "open")

\* ws.WriteMessage on socket s: the frame goes out when the socket is open.
Frames(s, fs) == IF s # NoConn /\ sock[s] = "open" THEN fs ELSE <<>>

\* ------------------------------------------------------------------ Connect
\* A backoff step that forgets the cap.
NextReconnectTimerNoCap(t) ==
    Trunc(t, opts.Backoff.ReconnectDecayNum, opts.Backoff.ReconnectDecayDen)

\* Connect's backoff step: multiply by the decay factor, cap at the maximum.
NextReconnectTimer(t) ==
    Min(Trunc(t, opts.Backoff.ReconnectDecayNum, opts.Backoff.ReconnectDecayDen),
        opts.Backoff.MaxReconnectInterval)

\* A frame is <<command, argument>>.
AuthFrames == <<<<"CAP REQ", "">>, <<"PASS", "">>, <<"NICK", "">>>>

\* Connect() with openConnection and authenticate, under the write lock of
\* Client.mu, which it gets when no accessor holds the read lock.  dial is the outcome of
\* dialer.Dial: "fail", "ok", or "broken" for a socket that opens and breaks
\* before the handshake is written.  i is the socket object a successful dial
\* returns.
Connect(dial, i) ==
    /\ mu = "free"
    /\ connects < MaxConnects
    /\ reconnectTimer' = NextReconnectTimer(reconnectTimer)
    /\ connects' = connects + 1
    /\ IF dial = "fail"
       THEN /\ events' = <<"connecting">>
            /\ written' = <<>>
            /\ ret' = "err"
            /\ UNCHANGED <<ws, sock, loopPc, loopRd, welcomed, joinTimers>>
       ELSE /\ Unreferenced(i)
            /\ \A j \in ConnIds : (j < i) => ~Unreferenced(j)
            /\ ws' = i
            /\ sock' = [sock EXCEPT ![i] = IF dial = "ok" THEN "open" ELSE "closed"]
            /\ loopPc' = [loopPc EXCEPT ![i] = "select"]
            /\ loopRd' = [loopRd EXCEPT ![i] = NoConn]
            /\ welcomed' = [welcomed EXCEPT ![i] = FALSE]
            /\ joinTimers' = [k \in 1..Len(joinTimers) |->
                                IF joinTimers[k].conn = i
                                THEN [joinTimers[k] EXCEPT !.conn = NoConn]
                                ELSE joinTimers[k]]
            /\ events' = <<"connecting", "logon">>
            /\ written' = IF dial = "ok" THEN AuthFrames ELSE <<>>
            /\ ret' = IF dial = "ok" THEN "ok" ELSE "err"
    /\ UNCHANGED <<queueVars, emitterVars, pureVars, opts, mu, say, callerClosed, pingsOut, reconnect, reconnections, wasCloseCalled, ctxDone,
                   roomVars, pingVars>>

\* The caller calls Connect() on a client that holds no socket and has no
\* read loop or reconnect pending.
CallerConnect ==
    /\ ws = NoConn
    /\ \A i \in ConnIds : loopPc[i] = "none"
    /\ timers = <<>>
    /\ \E dial \in {"fail", "ok", "broken"}, i \in ConnIds : Connect(dial, i)
    /\ op' = "Connect"
    /\ UNCHANGED <<reconnecting, timers>>

\* A reconnect timer fires once its delay has elapsed and its callback runs:
\* handleError's callback clears state.reconnecting, both call Connect() and
\* drop what it returns.
ReconnectTimerFire ==
    \E k \in 1..Len(timers) :
        /\ timers[k].elapsed >= timers[k].delay
        /\ timers' = RemoveAt(timers, k)
        /\ reconnecting' = IF timers[k].by = "handleError" THEN FALSE ELSE reconnecting
        /\ \E dial \in {"fail", "ok", "broken"}, i \in ConnIds : Connect(dial, i)
        /\ op' = "timerConnect"

\* One unit of time passes for every pending timer.
Tick ==
    /\ \E k \in 1..Len(timers) : timers[k].elapsed < timers[k].delay
    /\ timers' = [k \in 1..Len(timers) |->
                    [timers[k] EXCEPT !.elapsed = Min(@ + 1, timers[k].delay)]]
    /\ events' = <<>>
    /\ written' = <<>>
    /\ op' = "tick"
    /\ ret' = "none"
    /\ UNCHANGED <<queueVars, emitterVars, pureVars, opts, mu, say, callerClosed, pingsOut, connVars, reconnect, reconnections, reconnectTimer,
                   reconnecting, connects, wasCloseCalled, roomVars, pingVars,
                   joinTimers>>

\* -------------------------------------------------------------- handleError
\* Ticker.Stop / Timer.Stop behind the code's nil checks.
StopTicker(t) == IF t = "running" THEN "stopped" ELSE t
StopTimer(t) == IF t \in {"ticker", "Ping"} THEN "done" ELSE t

\* A reconnect decision that forgets the attempt limit.
ShouldReconnectNoLimit ==
    /\ reconnect
    /\ ~wasCloseCalled

\* The reconnect decision of handleError (the condition of line 277).
ShouldReconnect ==
    /\ reconnect
    /\ reconnections < opts.MaxReconnectAttempts
    /\ ~wasCloseCalled

\* A reconnect delay that is the configured base, not the current interval.
ReconnectDelayBase == opts.Backoff.ReconnectInterval

\* The delay handleError hands to time.AfterFunc (line 284).
ReconnectDelay == reconnectTimer

\* handleError(err): the failure path.  It leaves state.channels alone.
handleError ==
    /\ moderators' = NoModerators
    /\ userState' = {}
    /\ globalUserState' = "empty"
    /\ pingLoop' = StopTicker(pingLoop)
    /\ pingTimeout' = StopTimer(pingTimeout)
    /\ IF ShouldReconnect
       THEN /\ reconnecting' = TRUE
            /\ reconnections' = reconnections + 1
            /\ events' = <<"disconnected", "reconnect">>
            /\ timers' = Append(timers, [delay |-> ReconnectDelay, elapsed |-> 0,
                                         by |-> "handleError"])
       ELSE /\ events' = IF reconnections >= opts.MaxReconnectAttempts
                         THEN <<"disconnected", "maxreconnect">>
                         ELSE <<"disconnected">>
            /\ UNCHANGED <<reconnecting, reconnections, timers>>
    /\ ws' = NoConn

\* ---------------------------------------------------------------- read loop
\* handleMessages, top of the loop: return when the context is cancelled,
\* otherwise call ReadMessage on the socket state.ws names now.
LoopSelect(i) ==
    /\ loopPc[i] = "select"
    /\ IF ctxDone
       THEN /\ loopPc' = [loopPc EXCEPT ![i] = "none"]
            /\ loopRd' = [loopRd EXCEPT ![i] = NoConn]
       ELSE /\ ws # NoConn
            /\ loopPc' = [loopPc EXCEPT ![i] = "read"]
            /\ loopRd' = [loopRd EXCEPT ![i] = ws]
    /\ events' = <<>>
    /\ written' = <<>>
    /\ op' = "handleMessages"
    /\ ret' = "none"
    /\ UNCHANGED <<queueVars, emitterVars, pureVars, opts, mu, say, callerClosed, pingsOut, ws, sock, ctxDone, welcomed, backoffVars, wasCloseCalled,
                   roomVars, pingVars, joinTimers>>

\* ReadMessage returns an error: the loop runs handleError and returns.
ReadError(i) ==
    /\ loopPc[i] = "read"
    /\ sock[loopRd[i]] = "closed"
    /\ handleError
    /\ loopPc' = [loopPc EXCEPT ![i] = "none"]
    /\ loopRd' = [loopRd EXCEPT ![i] = NoConn]
    /\ acked' = {}
    /\ promoted' = [r \in Rooms |-> {}]
    /\ written' = <<>>
    /\ op' = "handleError"
    /\ ret' = "none"
    /\ UNCHANGED <<queueVars, emitterVars, pureVars, opts, mu, say, callerClosed, pingsOut, sock, ctxDone, welcomed, reconnect, reconnectTimer, connects,
                   wasCloseCalled, channels, optsChannels, stalePings, joinTimers,
                   roomSeen>>

\* The transport breaks or the server closes the socket.
NetworkFail ==
    \E j \in ConnIds :
        /\ sock[j] = "open"
        /\ sock' = [sock EXCEPT ![j] = "closed"]
        /\ events' = <<>>
        /\ written' = <<>>
        /\ op' = "networkFail"
        /\ ret' = "none"
        /\ UNCHANGED <<queueVars, emitterVars, pureVars, opts, mu, say, callerClosed, pingsOut, ws, loopPc, loopRd, ctxDone, welcomed, backoffVars,
                       wasCloseCalled, roomVars, pingVars, joinTimers>>

\* --------------------------------------------------------------- Disconnect
\* Disconnect(), under the write lock of Client.mu: an error when no socket
\* is held; otherwise mark the close as requested, close the socket, cancel
\* the context, emit disconnected.
DisconnectEvents == IF ws = NoConn THEN <<>> ELSE <<"disconnected">>

Disconnect ==
    /\ mu = "free"
    /\ IF ws = NoConn
       THEN UNCHANGED <<wasCloseCalled, sock, ctxDone>>
       ELSE /\ wasCloseCalled' = TRUE
            /\ sock' = [sock EXCEPT ![ws] = "closed"]
            /\ ctxDone' = TRUE

\* What Disconnect() returns: the not-connected error, or what ws.Close()
\* returns, which for a socket that is closed already is nil or an error.
DisconnectReturns ==
    IF ws = NoConn THEN {"err"}
    ELSE IF sock[ws] = "open" THEN {"ok"} ELSE {"ok", "err"}

CallerDisconnect ==
    /\ Disconnect
    /\ events' = DisconnectEvents
    /\ ret' \in DisconnectReturns
    /\ written' = <<>>
    /\ op' = "Disconnect"
    /\ callerClosed' = (callerClosed \/ ws # NoConn)
    /\ UNCHANGED <<queueVars, emitterVars, pureVars, opts, mu, say, pingsOut, ws, loopPc, loopRd, welcomed, backoffVars, roomVars,
                   pingVars, joinTimers>>

\* ------------------------------------------------------------- ping timers
\* state.pingTimeout = time.AfterFunc(...): the timer the field named before
\* keeps running when it was pending.
ArmPingTimeout(by) ==
    /\ (pingTimeout \in {"ticker", "Ping"}) => Len(stalePings) < MaxStalePings
    /\ stalePings' = IF pingTimeout \in {"ticker", "Ping"}
                     THEN Append(stalePings, pingTimeout)
                     ELSE stalePings
    /\ pingTimeout' = by

\* The body of a ping-timeout callback that was armed by `by`; cur is the
\* value of state.pingTimeout it finds.
PingTimeoutBody(by, cur) ==
    IF ws # NoConn
    THEN /\ wasCloseCalled' = FALSE
         /\ sock' = [sock EXCEPT ![ws] = "closed"]
         /\ pingLoop' = StopTicker(pingLoop)
         /\ pingTimeout' = IF by = "Ping" THEN StopTimer(cur) ELSE cur
    ELSE /\ pingTimeout' = cur
         /\ UNCHANGED <<wasCloseCalled, sock, pingLoop>>

\* The timer state.pingTimeout names fires.
PingTimeoutFire ==
    /\ pingTimeout \in {"ticker", "Ping"}
    /\ PingTimeoutBody(pingTimeout, "done")
    /\ events' = <<>>
    /\ written' = <<>>
    /\ op' = "pingTimeout"
    /\ ret' = "none"
    /\ UNCHANGED <<queueVars, emitterVars, pureVars, opts, mu, say, callerClosed, pingsOut, ws, loopPc, loopRd, ctxDone, welcomed, backoffVars,
                   roomVars, stalePings, joinTimers>>

\* A pending ping-timeout timer that state.pingTimeout no longer names fires.
StalePingTimeoutFire ==
    \E k \in 1..Len(stalePings) :
        /\ stalePings' = RemoveAt(stalePings, k)
        /\ PingTimeoutBody(stalePings[k], pingTimeout)
        /\ events' = <<>>
        /\ written' = <<>>
        /\ op' = "pingTimeout"
        /\ ret' = "none"
        /\ UNCHANGED <<queueVars, emitterVars, pureVars, opts, mu, say, callerClosed, pingsOut, ws, loopPc, loopRd, ctxDone, welcomed, backoffVars,
                       roomVars, joinTimers>>

\* One tick of the keep-alive ticker started by the 376 handler.
PingLoopTick ==
    /\ pingLoop = "running"
    /\ written' = IF isConnected THEN Frames(ws, <<<<"PING", "">>>>) ELSE <<>>
    /\ ArmPingTimeout("ticker")
    /\ events' = <<>>
    /\ op' = "pingLoop"
    /\ ret' = "none"
    /\ pingsOut <= MaxStalePings
    /\ pingsOut' = pingsOut + Len(written')
    /\ UNCHANGED <<queueVars, emitterVars, pureVars, opts, mu, say, callerClosed, connVars, backoffVars, wasCloseCalled, roomVars, pingLoop,
                   joinTimers>>

\* Ping(): arms the timeout first, then sendCommandRaw checks the connection.
Ping ==
    /\ ArmPingTimeout("Ping")
    /\ written' = IF isConnected THEN Frames(ws, <<<<"PING", "">>>>) ELSE <<>>
    /\ ret' = IF isConnected /\ sock[ws] = "open" THEN "ok" ELSE "err"
    /\ events' = <<>>
    /\ op' = "Ping"
    /\ pingsOut <= MaxStalePings
    /\ pingsOut' = pingsOut + Len(written')
    /\ UNCHANGED <<queueVars, emitterVars, pureVars, opts, mu, say, callerClosed, connVars, backoffVars, wasCloseCalled, roomVars, pingLoop,
                   joinTimers>>

\* ---------------------------------------------------------------- dispatcher
Msg(c, r, n, f) == [cmd |-> c, room |-> r, nick |-> n, flag |-> f]

\* The inbound messages the dispatcher specification feeds the dispatcher.
\* flag is user-type=mod for USERSTATE and +o (TRUE) / -o (FALSE) for MODE.
RoomMessages ==
    { Msg(c, "", "", FALSE) : c \in {"376", "PING"} }
    \cup { Msg("USERSTATE", r, "", f) : r \in Rooms, f \in BOOLEAN }
    \cup { Msg("MODE", "#a", n, f) : n \in Users, f \in BOOLEAN }
    \cup { Msg(c, r, n, FALSE) : c \in {"JOIN", "PART"}, r \in Rooms, n \in Users }

\* The inbound messages the lifecycle specification feeds the dispatcher.
Messages ==
    { Msg(c, "", "", FALSE) : c \in {"376", "RECONNECT", "PONG", "GLOBALUSERSTATE"} }
    \cup { Msg("USERSTATE", "#a", "", TRUE) }

Without(s, x) == SelectSeq(s, LAMBDA y : y # x)

\* The deduplication loop of the 376 handler: first occurrences, in order.
RECURSIVE Unique(_)
Unique(s) ==
    IF s = <<>> THEN <<>>
    ELSE LET init == Unique(SubSeq(s, 1, Len(s) - 1))
             last == s[Len(s)]
         IN  IF InSeq(init, last) THEN init ELSE Append(init, last)

\* The 376 handler's minimum pacing (300 * time.Millisecond).
MinJoinInterval == 300

\* A pacing delay without the minimum.
JoinDelayNoFloor == NewClientJoinInterval(opts)

\* The pacing delay of the join queue: max(joinInterval, 300 ms).
JoinDelay == Max(NewClientJoinInterval(opts), MinJoinInterval)

\* Queue.Next() on a join queue whose remaining items are rooms: run the
\* first item (Join when connected), schedule the advance for the rest.
\* s is the socket of the connection whose 376 is being handled.
JoinQueueNext(rooms, s) ==
    /\ written' = IF rooms # <<>> /\ isConnected
                  THEN Frames(ws, <<<<"JOIN", Head(rooms)>>>>)
                  ELSE <<>>
    /\ IF Len(rooms) > 1
       THEN /\ Len(joinTimers) < MaxJoinTimers
            /\ joinTimers' = Append(joinTimers, [rooms |-> Tail(rooms),
                                                  delay |-> JoinDelay, conn |-> s])
       ELSE joinTimers' = joinTimers

\* handleTwitchMessage, case "376".
Handle376(s) ==
    /\ userState' = userState \cup {GlobalDefaultChannel}
    /\ reconnections' = 0
    /\ reconnectTimer' = opts.Backoff.ReconnectInterval
    /\ connects' = 0
    /\ pingLoop' = "running"
    /\ channels' = <<>>
    /\ JoinQueueNext(Unique(optsChannels \o channels), s)
    /\ events' = <<"raw_message", "connected", "_promiseConnect">>
    /\ UNCHANGED <<reconnect, reconnecting, timers, wasCloseCalled, sock, ctxDone,
                   moderators, promoted, roomSeen, globalUserState, acked, optsChannels, pingTimeout,
                   stalePings>>

\* handleTwitchMessage, case "RECONNECT": Disconnect(), then a timer that
\* calls Connect() after the current backoff interval.
HandleRECONNECT ==
    /\ Disconnect
    /\ timers' = Append(timers, [delay |-> reconnectTimer, elapsed |-> 0,
                                 by |-> "RECONNECT"])
    /\ events' = <<"raw_message">> \o DisconnectEvents
    /\ written' = <<>>
    /\ UNCHANGED <<reconnect, reconnections, reconnectTimer, reconnecting, connects,
                   roomVars, pingVars, joinTimers>>

\* handleTwitchMessage, case "USERSTATE" (a message without an emote-sets tag).
HandleUSERSTATE(m) ==
    /\ moderators' =
         IF m.flag /\ ~InSeq(moderators[m.room], Me)
         THEN [moderators EXCEPT ![m.room] = Append(@, Me)]
         ELSE moderators
    /\ promoted' = IF m.flag THEN [promoted EXCEPT ![m.room] = @ \cup {Me}]
                   ELSE promoted
    /\ IF m.room \notin userState /\ ~IsJustinfan
       THEN /\ Len(channels) < MaxChannels
            /\ channels' = Append(channels, m.room)
            /\ events' = <<"raw_message", "join">>
       ELSE /\ channels' = channels
            /\ events' = <<"raw_message">>
    /\ userState' = userState \cup {m.room}
    /\ acked' = IF IsJustinfan THEN acked ELSE acked \cup {m.room}
    /\ written' = <<>>
    /\ UNCHANGED <<backoffVars, wasCloseCalled, sock, ctxDone, globalUserState,
                   optsChannels, pingVars, joinTimers, roomSeen>>

\* handleTwitchMessage, case "GLOBALUSERSTATE" (without an emote-sets tag).
HandleGLOBALUSERSTATE ==
    /\ globalUserState' = "set"
    /\ events' = <<"raw_message", "globaluserstate">>
    /\ written' = <<>>
    /\ UNCHANGED <<backoffVars, wasCloseCalled, sock, ctxDone, channels, userState,
                   moderators, promoted, roomSeen, acked, optsChannels, pingVars, joinTimers>>

\* A +o that appends without looking for the user.
AddModeratorAgain(mods, u) == Append(mods, u)

\* handleJTVMessage, "+o": append the user unless the loop found it.
AddModerator(mods, u) == IF InSeq(mods, u) THEN mods ELSE Append(mods, u)

\* handleJTVMessage: MODE +o / -o.
HandleMODE(m) ==
    /\ moderators' =
         IF m.flag
         THEN [moderators EXCEPT ![m.room] = AddModerator(@, m.nick)]
         ELSE [moderators EXCEPT ![m.room] = Without(@, m.nick)]
    /\ promoted' = IF m.flag THEN [promoted EXCEPT ![m.room] = @ \cup {m.nick}]
                   ELSE [promoted EXCEPT ![m.room] = @ \ {m.nick}]
    /\ events' = <<"raw_message", IF m.flag THEN "mod" ELSE "unmod">>
    /\ written' = <<>>
    /\ UNCHANGED <<backoffVars, wasCloseCalled, sock, ctxDone, channels, userState,
                   globalUserState, acked, optsChannels, pingVars, joinTimers, roomSeen>>

\* handleUserMessage, case "JOIN".
HandleJOIN(m) ==
    /\ IF m.nick = Me /\ IsJustinfan
       THEN /\ Len(channels) < MaxChannels
            /\ channels' = Append(channels, m.room)
            /\ acked' = acked \cup {m.room}
            /\ events' = <<"raw_message", "join">>
       ELSE /\ channels' = channels
            /\ acked' = acked
            /\ events' = IF m.nick # Me THEN <<"raw_message", "join">>
                         ELSE <<"raw_message">>
    /\ written' = <<>>
    /\ UNCHANGED <<backoffVars, wasCloseCalled, sock, ctxDone, userState, moderators, promoted, roomSeen,
                   globalUserState, optsChannels, pingVars, joinTimers>>

\* handleUserMessage, case "PART".
HandlePART(m) ==
    /\ IF m.nick = Me
       THEN /\ userState' = userState \ {m.room}
            /\ channels' = Without(channels, m.room)
            /\ optsChannels' = Without(optsChannels, m.room)
            /\ acked' = acked \ {m.room}
            /\ events' = <<"raw_message", "_promisePart", "part">>
       ELSE /\ events' = <<"raw_message", "part">>
            /\ UNCHANGED <<userState, channels, optsChannels, acked>>
    /\ written' = <<>>
    /\ UNCHANGED <<backoffVars, wasCloseCalled, sock, ctxDone, moderators, promoted, roomSeen,
                   globalUserState, pingVars, joinTimers>>

\* handleMessage's tag transformation: "1" becomes true, "0" false, any
\* other string stays a string; "absent" is a tag the message does not have.
TagValue(v) ==
    IF v \in {"0", "1"} THEN [kind |-> "bool", b |-> (v = "1"), s |-> ""]
    ELSE [kind |-> IF v = "absent" THEN "absent" ELSE "string", b |-> FALSE, s |-> v]

\* handleRoomState, the slow tag: off for false, on for a string.
SlowEvents(tag) ==
    IF tag.kind = "bool" /\ ~tag.b THEN <<"slow", "slowmode", "_promiseSlowoff">>
    ELSE IF tag.kind = "string" THEN <<"slow", "slowmode", "_promiseSlow">>
    ELSE <<>>

\* handleRoomState, the followers-only tag: off for "-1", on for another
\* string.
FollowersEvents(tag) ==
    IF tag.kind # "string" THEN <<>>
    ELSE IF tag.s = "-1" THEN <<"followersonly", "followersmode", "_promiseFollowersoff">>
    ELSE <<"followersonly", "followersmode", "_promiseFollowers">>

\* handleRoomState(message, channel): what the tags of the message say.
DerivedEvents(m) ==
    SlowEvents(TagValue(m.slow)) \o FollowersEvents(TagValue(m.followers))

\* handleTwitchMessage, case "ROOMSTATE".  state.lastJoined is not followed:
\* whether it names the room, and '_promiseJoin' is emitted, is left open.
HandleROOMSTATE(m) ==
    /\ \E promiseJoin \in {<<>>, <<"_promiseJoin">>} :
          events' = <<"raw_message">> \o promiseJoin \o <<"roomstate">>
                    \o DerivedEvents(m)
    /\ roomSeen' = [roomSeen EXCEPT ![m.room] =
                      [slow |-> IF m.slow = "absent" THEN @.slow ELSE m.slow,
                       followers |-> IF m.followers = "absent" THEN @.followers
                                     ELSE m.followers]]
    /\ written' = <<>>
    /\ UNCHANGED <<backoffVars, wasCloseCalled, sock, ctxDone, channels, userState,
                   moderators, promoted, globalUserState, acked, optsChannels,
                   pingVars, joinTimers>>

\* A PING handler that answers nothing.
HandlePINGSilent ==
    /\ events' = <<"raw_message", "ping">>
    /\ written' = <<>>
    /\ UNCHANGED <<backoffVars, wasCloseCalled, sock, ctxDone, roomVars, pingVars,
                   joinTimers>>

\* handleNoPrefixMessage, case "PING".
HandlePING ==
    /\ events' = <<"raw_message", "ping">>
    /\ written' = IF isConnected THEN Frames(ws, <<<<"PONG", "">>>>) ELSE <<>>
    /\ UNCHANGED <<backoffVars, wasCloseCalled, sock, ctxDone, roomVars, pingVars,
                   joinTimers>>

\* handleNoPrefixMessage, case "PONG".
HandlePONG ==
    /\ events' = <<"raw_message", "pong", "_promisePing">>
    /\ pingTimeout' = StopTimer(pingTimeout)
    /\ written' = <<>>
    /\ UNCHANGED <<backoffVars, wasCloseCalled, sock, ctxDone, roomVars, pingLoop,
                   stalePings, joinTimers>>

\* handleMessage: the dispatch on prefix and command.
handleMessage(m, s) ==
    CASE m.cmd = "376" -> Handle376(s)
      [] m.cmd = "RECONNECT" -> HandleRECONNECT
      [] m.cmd = "USERSTATE" -> HandleUSERSTATE(m)
      [] m.cmd = "GLOBALUSERSTATE" -> HandleGLOBALUSERSTATE
      [] m.cmd = "MODE" -> HandleMODE(m)
      [] m.cmd = "JOIN" -> HandleJOIN(m)
      [] m.cmd = "PART" -> HandlePART(m)
      [] m.cmd = "PING" -> HandlePING
      [] m.cmd = "PONG" -> HandlePONG
      [] m.cmd = "ROOMSTATE" -> HandleROOMSTATE(m)

\* The read loop dispatches message m, which it read from socket loopRd[i],
\* and goes back to the top of the loop.  The server sends the final welcome
\* once per connection, before anything else, and a PONG only in answer to a
\* PING.
Dispatch(i, m) ==
    /\ (m.cmd = "376") = ~welcomed[loopRd[i]]
    /\ (m.cmd = "PONG") => pingsOut > 0
    /\ pingsOut' = IF m.cmd = "PONG" THEN pingsOut - 1 ELSE pingsOut
    /\ handleMessage(m, loopRd[i])
    /\ welcomed' = IF m.cmd = "376" THEN [welcomed EXCEPT ![loopRd[i]] = TRUE]
                   ELSE welcomed
    /\ loopPc' = [loopPc EXCEPT ![i] = "select"]
    /\ loopRd' = [loopRd EXCEPT ![i] = NoConn]
    /\ op' = m.cmd
    /\ ret' = "none"
    /\ UNCHANGED <<queueVars, emitterVars, pureVars, opts, mu, say, callerClosed, ws>>

\* The read loop reads one message from its socket and dispatches it.
Recv(i, m) ==
    /\ loopPc[i] = "read"
    /\ sock[loopRd[i]] = "open"
    /\ Dispatch(i, m)

\* A queue-advance timer of a join queue fires: Queue.Next().
JoinTimerFire ==
    \E k \in 1..Len(joinTimers) :
        /\ written' = IF isConnected
                      THEN Frames(ws, <<<<"JOIN", Head(joinTimers[k].rooms)>>>>)
                      ELSE <<>>
        /\ joinTimers' = IF Len(joinTimers[k].rooms) > 1
                         THEN [joinTimers EXCEPT ![k].rooms = Tail(@)]
                         ELSE RemoveAt(joinTimers, k)
        /\ events' = <<>>
        /\ op' = "Queue.Next"
        /\ ret' = IF isConnected /\ sock[ws] = "open" THEN "ok" ELSE "err"
        /\ UNCHANGED <<queueVars, emitterVars, pureVars, opts, mu, say, callerClosed, pingsOut, connVars, backoffVars, wasCloseCalled, roomVars, pingVars>>

CallerPing ==
    Ping

\* ------------------------------------------------------------ specification
Next ==
    \/ CallerConnect
    \/ ReconnectTimerFire
    \/ Tick
    \/ \E i \in ConnIds : LoopSelect(i)
    \/ \E i \in ConnIds : ReadError(i)
    \/ \E i \in ConnIds, m \in Messages : Recv(i, m)
    \/ NetworkFail
    \/ CallerDisconnect
    \/ CallerPing
    \/ PingLoopTick
    \/ PingTimeoutFire
    \/ StalePingTimeoutFire

Spec == Init /\ [][Next]_vars

\* The dispatcher specification: the same client under every room message,
\* with failures and reconnects, without the caller's Disconnect and Ping.
NextRooms ==
    \/ CallerConnect
    \/ ReconnectTimerFire
    \/ Tick
    \/ \E i \in ConnIds : LoopSelect(i)
    \/ \E i \in ConnIds : ReadError(i)
    \/ \E i \in ConnIds, m \in RoomMessages : Recv(i, m)
    \/ NetworkFail
    \/ JoinTimerFire

SpecRooms == InitRooms /\ [][NextRooms]_vars

\* The rejoin specification: final welcomes and the acknowledgements of
\* the client's joins (USERSTATE, and JOIN for an anonymous client; no room
\* is parted) reach a client whose connection fails and is reopened while
\* join queues are pending.
RejoinMessages ==
    { Msg("376", "", "", FALSE) }
    \cup { Msg("USERSTATE", r, "", FALSE) : r \in Rooms }
    \cup { Msg("JOIN", r, Me, FALSE) : r \in Rooms }

NextRejoin ==
    \/ CallerConnect
    \/ ReconnectTimerFire
    \/ Tick
    \/ \E i \in ConnIds : LoopSelect(i)
    \/ \E i \in ConnIds : ReadError(i)
    \/ \E i \in ConnIds, m \in RejoinMessages : Recv(i, m)
    \/ NetworkFail
    \/ JoinTimerFire

SpecRejoin == InitRooms /\ [][NextRejoin]_vars

\* The caller calls Connect() on a client that holds a socket already:
\* Connect() does not look at state.ws before it dials.
CallerConnectAgain ==
    /\ ws # NoConn
    /\ timers = <<>>
    /\ \E dial \in {"fail", "ok", "broken"}, i \in ConnIds : Connect(dial, i)
    /\ op' = "Connect"
    /\ UNCHANGED <<reconnecting, timers>>

\* The server's PING specification: the final welcome and PING messages
\* reach a client whose caller may call Connect() at any time, so that a
\* read loop of an abandoned socket can dispatch after the failure path of
\* a newer connection has run.
PingMessages == { Msg(c, "", "", FALSE) : c \in {"376", "PING"} }

InitPing ==
    /\ InitWith({[Backoff |-> DefaultBackoff, Reconnect |-> TRUE,
                  MaxReconnectAttempts |-> 1, anon |-> FALSE, Channels |-> <<"#a">>,
                  JoinInterval |-> 0]})
    /\ NewQueue(0) /\ NewEventEmitter /\ NoCall

NextPing ==
    \/ CallerConnect
    \/ CallerConnectAgain
    \/ ReconnectTimerFire
    \/ Tick
    \/ \E i \in ConnIds : LoopSelect(i)
    \/ \E i \in ConnIds : ReadError(i)
    \/ \E i \in ConnIds, m \in PingMessages : Recv(i, m)
    \/ NetworkFail

SpecPing == InitPing /\ [][NextPing]_vars

\* The dispatch specification: the read loop's iteration in two steps, so
\* that the time a loop spends inside handleMessage is a state.
\* ReadMessage returns a message to loop i.
ReadMessage(i) ==
    /\ loopPc[i] = "read"
    /\ sock[loopRd[i]] = "open"
    /\ loopPc' = [loopPc EXCEPT ![i] = "dispatch"]
    /\ events' = <<>>
    /\ written' = <<>>
    /\ op' = "ReadMessage"
    /\ ret' = "none"
    /\ UNCHANGED <<queueVars, emitterVars, pureVars, opts, mu, say, callerClosed, pingsOut, ws, sock, loopRd, ctxDone, welcomed,
                   backoffVars, wasCloseCalled, roomVars, pingVars, joinTimers>>

\* handleMessage(m) of loop i runs to its end.
DispatchEnd(i, m) ==
    /\ loopPc[i] = "dispatch"
    /\ Dispatch(i, m)

NextDispatch ==
    \/ CallerConnect
    \/ CallerConnectAgain
    \/ ReconnectTimerFire
    \/ Tick
    \/ \E i \in ConnIds : LoopSelect(i)
    \/ \E i \in ConnIds : ReadError(i)
    \/ \E i \in ConnIds : ReadMessage(i)
    \/ \E i \in ConnIds, m \in PingMessages : DispatchEnd(i, m)
    \/ NetworkFail
    \/ CallerDisconnect

SpecDispatch == InitPing /\ [][NextDispatch]_vars

\* ---------------------------------------------------------------- accessors
\* A name as a caller writes it: the lower-case name without '#', and
\* whether it was written with a leading '#', in upper case, with blanks
\* around it.
Written(names) ==
    [name : names, hash : BOOLEAN, upper : BOOLEAN, blanks : BOOLEAN]

\* Channel(str): trimmed, lower case, with one leading '#'.
Channel(str) == IF str.name = "a" THEN "#a" ELSE GlobalDefaultChannel

\* Username(str): trimmed, lower case, without the leading '#'.
Username(str) == str.name

\* IsMod(channel, username).
IsMod(channel, username) ==
    /\ Channel(channel) \in DOMAIN moderators
    /\ InSeq(moderators[Channel(channel)], Username(username))

\* ------------------------------------------------------ outbound operations
\* A text is a sequence of characters; "^A" stands for the byte 0x01.
HasPrefix(tx, pre) == Len(tx) >= Len(pre) /\ SubSeq(tx, 1, Len(pre)) = pre

\* strings.LastIndex(tx, ch): the last index (from 0) of ch in tx, or -1.
LastIndex(tx, ch) ==
    IF \E k \in 1..Len(tx) : tx[k] = ch
    THEN (CHOOSE k \in 1..Len(tx) :
            tx[k] = ch /\ \A j \in (k + 1)..Len(tx) : tx[j] # ch) - 1
    ELSE -1

\* The length above which sendMessage splits a text.
MaxMessageLen == 500

\* A split point that ignores spaces.
SplitAtFixed(tx) == MaxMessageLen

\* sendMessage's split point: the last space in the first 500 characters,
\* or 500 when there is none.
SplitAt(tx) ==
    LET lastSpace == LastIndex(SubSeq(tx, 1, MaxMessageLen), " ")
    IN  IF lastSpace = -1 THEN MaxMessageLen ELSE lastSpace

\* ws.WriteMessage(fs) as the last statement: what goes out, what comes back.
WriteAndReturn(fs) ==
    /\ written' = Frames(ws, fs)
    /\ ret' = IF sock[ws] = "open" THEN "ok" ELSE "err"

\* The errors.New(...) returns: nothing is written.
ReturnError ==
    /\ written' = <<>>
    /\ ret' = "err"

\* The payloads out and one more, as far as they are kept.
Wrote(out, payload) == IF Len(out) < MaxFrames THEN Append(out, payload) ELSE out

SayDone(text, out) == [text |-> text, rest |-> <<>>, out |-> out, pc |-> "done"]

\* sendMessage(channel, tx) as one step of the call that was given `text`
\* and has written the payloads `out`: fail when not connected or
\* anonymous; a text above the threshold writes its first part and leaves
\* the rest for after the sleep; another text is written whole.
sendMessage(tx, text, out) ==
    IF ~isConnected \/ IsJustinfan
    THEN /\ ReturnError
         /\ say' = SayDone(text, out)
    ELSE IF Len(tx) > MaxMessageLen
    THEN LET first == SubSeq(tx, 1, SplitAt(tx))
         IN  /\ written' = Frames(ws, <<<<"PRIVMSG", first>>>>)
             /\ IF sock[ws] = "open"
                THEN /\ ret' = "none"
                     /\ say' = [text |-> text,
                                rest |-> SubSeq(tx, SplitAt(tx) + 1, Len(tx)),
                                out |-> Wrote(out, first), pc |-> "sleep"]
                ELSE /\ ret' = "err"
                     /\ say' = SayDone(text, out)
    ELSE /\ WriteAndReturn(<<<<"PRIVMSG", tx>>>>)
         /\ say' = SayDone(text, IF sock[ws] = "open" THEN Wrote(out, tx) ELSE out)

\* sendCommand(channel, command): no look at the username.
sendCommand(channel, command) ==
    /\ IF ~isConnected
       THEN ReturnError
       ELSE IF channel # ""
            THEN WriteAndReturn(<<<<"PRIVMSG", command>>>>)
            ELSE WriteAndReturn(<<<<"RAW", command>>>>)
    /\ say' = say

\* sendCommandRaw(command).
sendCommandRaw(command) ==
    /\ IF ~isConnected THEN ReturnError ELSE WriteAndReturn(<<<<"RAW", command>>>>)
    /\ say' = say

\* sendCommandWithResponse(channel, command, ...): it does not wait.
sendCommandWithResponse(channel, command) ==
    IF channel # "" THEN sendCommand(channel, command) ELSE sendCommandRaw(command)

\* What an outbound operation leaves alone.
OutboundFrame ==
    /\ say.pc \notin {"sleep", "rest", "checked"}
    /\ events' = <<>>
    /\ UNCHANGED <<queueVars, emitterVars, pureVars, opts, mu, callerClosed, pingsOut, connVars, backoffVars, wasCloseCalled,
                   roomVars, pingVars, joinTimers>>

\* Action(channel, message).
Action(tx) == sendMessage(<<"^A", "A", "C", "T", "I", "O", "N", " ">> \o tx \o <<"^A">>,
                          tx, <<>>)

\* Say(channel, message): a command goes to sendCommand, "/me " and ".me "
\* to Action, anything else to sendMessage.
Say(tx) ==
    IF \/ HasPrefix(tx, <<".">>) /\ ~HasPrefix(tx, <<".", ".">>)
       \/ HasPrefix(tx, <<"/">>)
       \/ HasPrefix(tx, <<"\\">>)
    THEN IF HasPrefix(tx, <<".", "m", "e", " ">>) \/ HasPrefix(tx, <<"/", "m", "e", " ">>)
         THEN Action(SubSeq(tx, 5, Len(tx)))
         ELSE sendCommand("#a", tx)
    ELSE sendMessage(tx, tx, <<>>)

\* The texts the caller sends in the outbound specification.
Texts ==
    { <<"h", "i">>, <<"/", "b">>, <<".", "b">>, <<"\\", "b">>, <<".", ".", "x">>,
      <<"/", "m", "e", " ", "x">> }

CallerSay(tx) == OutboundFrame /\ Say(tx) /\ op' = "Say"

CallerAction(tx) == OutboundFrame /\ Action(tx) /\ op' = "Action"

\* Reply(channel, message, replyParentMsgID).
CallerReply(tx, parent) ==
    /\ OutboundFrame
    /\ IF parent = "" THEN ReturnError /\ say' = say ELSE Say(tx)
    /\ op' = "Reply"

\* Announce(channel, message).
CallerAnnounce(tx) ==
    /\ OutboundFrame
    /\ sendMessage(<<"/", "a", "n", "n", "o", "u", "n", "c", "e", " ">> \o tx, tx, <<>>)
    /\ op' = "Announce"

CallerJoin(r) ==
    OutboundFrame /\ sendCommandWithResponse("", <<"JOIN", r>>) /\ op' = "Join"

\* JoinMultiple(channels): nothing to do for an empty list.
CallerJoinMultiple(rs) ==
    /\ OutboundFrame
    /\ IF rs = <<>>
       THEN written' = <<>> /\ ret' = "ok" /\ say' = say
       ELSE sendCommandWithResponse("", <<"JOIN", rs>>)
    /\ op' = "JoinMultiple"

CallerPart(r) ==
    OutboundFrame /\ sendCommandWithResponse("", <<"PART", r>>) /\ op' = "Part"

\* Ban, Timeout, Clear, Slow, ...: the moderation and room-mode commands.
CallerCommand(r) ==
    OutboundFrame /\ sendCommandWithResponse(r, <<"/", "c">>) /\ op' = "Command"

\* Whisper(username, message).
CallerWhisper(u) ==
    /\ OutboundFrame
    /\ IF u = Me THEN ReturnError /\ say' = say
       ELSE sendCommandWithResponse(GlobalDefaultChannel, <<"/", "w">>)
    /\ op' = "Whisper"

CallerRaw == OutboundFrame /\ sendCommandRaw(<<"x">>) /\ op' = "Raw"

\* The outbound specification: every outbound operation on a client that
\* connects, fails and reconnects, anonymous or not.
InitSend ==
    /\ InitWith({ [Backoff |-> DefaultBackoff, Reconnect |-> TRUE,
                   MaxReconnectAttempts |-> 1, anon |-> a, Channels |-> <<"#a">>,
                   JoinInterval |-> 0] : a \in BOOLEAN })
    /\ NewQueue(0) /\ NewEventEmitter /\ NoCall

NextSend ==
    \/ CallerConnect
    \/ ReconnectTimerFire
    \/ Tick
    \/ \E i \in ConnIds : LoopSelect(i)
    \/ \E i \in ConnIds : ReadError(i)
    \/ NetworkFail
    \/ \E tx \in Texts : CallerSay(tx)
    \/ CallerAction(<<"h", "i">>)
    \/ \E parent \in {"", "id"} : CallerReply(<<"h", "i">>, parent)
    \/ CallerAnnounce(<<"h", "i">>)
    \/ CallerJoin("#a")
    \/ \E rs \in {<<>>, <<"#a">>} : CallerJoinMultiple(rs)
    \/ CallerPart("#a")
    \/ CallerCommand("#a")
    \/ \E u \in Users : CallerWhisper(u)
    \/ CallerRaw
    \/ CallerPing

SpecSend == InitSend /\ [][NextSend]_vars

\* time.Sleep(350 * time.Millisecond) of sendMessage returns.
SleepOver ==
    /\ say.pc = "sleep"
    /\ say' = [say EXCEPT !.pc = "rest"]
    /\ written' = <<>>
    /\ events' = <<>>
    /\ UNCHANGED <<queueVars, emitterVars, pureVars, opts, mu, callerClosed, pingsOut, connVars, backoffVars, wasCloseCalled,
                   roomVars, pingVars, joinTimers, op, ret>>

\* The sleep of sendMessage is over: the call goes on with the rest.
SendRest ==
    /\ say.pc = "rest"
    /\ sendMessage(say.rest, say.text, say.out)
    /\ events' = <<>>
    /\ op' = "sendMessage"
    /\ UNCHANGED <<queueVars, emitterVars, pureVars, opts, mu, callerClosed, pingsOut, connVars, backoffVars, wasCloseCalled,
                   roomVars, pingVars, joinTimers>>

\* A text of n characters with spaces at the positions sp (counted from 1).
LongText(n, sp) == [k \in 1..n |-> IF k \in sp THEN " " ELSE "x"]

\* Texts at, just above and far above the threshold, without a space, with
\* spaces inside and outside the first 500 characters, and with a space as
\* the first character.
LongTexts ==
    { LongText(500, {}), LongText(501, {}), LongText(501, {250}),
      LongText(900, {300, 450, 800}), LongText(1200, {}), LongText(1001, {400}),
      LongText(501, {1}) }

\* The long-text specification: Say with long texts on a client that
\* connects and fails; a sleeping sendMessage call goes on eventually.
NextSay ==
    \/ CallerConnect
    \/ ReconnectTimerFire
    \/ Tick
    \/ \E i \in ConnIds : LoopSelect(i)
    \/ \E i \in ConnIds : ReadError(i)
    \/ NetworkFail
    \/ \E tx \in LongTexts : CallerSay(tx)
    \/ SleepOver
    \/ SendRest

SpecSay == InitPing /\ [][NextSay]_vars /\ WF_vars(SleepOver) /\ WF_vars(SendRest)

\* sendMessage(channel, tx) for a short text up to its checks: the caller's
\* goroutine has seen isConnected() and IsJustinfan() and has not yet
\* evaluated c.state.ws for the write.
sendMessageCheck(tx) ==
    /\ OutboundFrame
    /\ Len(tx) <= MaxMessageLen
    /\ IF ~isConnected \/ IsJustinfan
       THEN /\ ReturnError
            /\ say' = SayDone(tx, <<>>)
       ELSE /\ written' = <<>>
            /\ ret' = "none"
            /\ say' = [text |-> tx, rest |-> tx, out |-> <<>>, pc |-> "checked"]
    /\ op' = "Say"

\* The last statement of sendMessage, c.state.ws.WriteMessage(...): the
\* field is read again, without the mutex.  When the failure path has set
\* it to nil since the check, the call dereferences nil, or (the read
\* racing with the write) uses the closed socket it saw before.
sendMessageWrite ==
    /\ say.pc = "checked"
    /\ IF ws = NoConn
       THEN /\ written' = <<>>
            /\ ret' \in {"panic", "err"}
       ELSE WriteAndReturn(<<<<"PRIVMSG", say.rest>>>>)
    /\ say' = SayDone(say.text, IF ws # NoConn /\ sock[ws] = "open"
                                THEN <<say.rest>> ELSE <<>>)
    /\ events' = <<>>
    /\ op' = "sendMessage"
    /\ UNCHANGED <<queueVars, emitterVars, pureVars, opts, mu, callerClosed, pingsOut, connVars, backoffVars, wasCloseCalled,
                   roomVars, pingVars, joinTimers>>

\* The race specification: the caller's goroutine sends a chat text in two
\* steps while the read loop dispatches and fails.
NextRace ==
    \/ CallerConnect
    \/ ReconnectTimerFire
    \/ Tick
    \/ \E i \in ConnIds : LoopSelect(i)
    \/ \E i \in ConnIds : ReadError(i)
    \/ \E i \in ConnIds, m \in PingMessages : Recv(i, m)
    \/ NetworkFail
    \/ sendMessageCheck(<<"h", "i">>)
    \/ sendMessageWrite

SpecRace == InitPing /\ [][NextRace]_vars

\* The accessor specification: GetChannels(), IsMod() and ReadyState() hold
\* the read lock of Client.mu from RLock to the deferred RUnlock while the
\* read loop dispatches and fails.
Accessors == {"GetChannels", "IsMod", "ReadyState"}

\* An accessor takes the read lock (several readers may hold it; one is
\* followed).
AccessorRLock(a) ==
    /\ mu = "free"
    /\ mu' = a
    /\ events' = <<>>
    /\ written' = <<>>
    /\ op' = a
    /\ ret' = "none"
    /\ UNCHANGED <<queueVars, emitterVars, pureVars, opts, say, callerClosed, pingsOut, connVars, backoffVars, wasCloseCalled,
                   roomVars, pingVars, joinTimers>>

\* The accessor returns what it read and releases the read lock.
AccessorRUnlock ==
    /\ mu \in Accessors
    /\ mu' = "free"
    /\ events' = <<>>
    /\ written' = <<>>
    /\ op' = "RUnlock"
    /\ ret' = "ok"
    /\ UNCHANGED <<queueVars, emitterVars, pureVars, opts, say, callerClosed, pingsOut, connVars, backoffVars, wasCloseCalled,
                   roomVars, pingVars, joinTimers>>

AccessMessages ==
    { Msg("376", "", "", FALSE) }
    \cup { Msg("USERSTATE", r, "", f) : r \in Rooms, f \in BOOLEAN }
    \cup { Msg("MODE", "#a", n, f) : n \in Users, f \in BOOLEAN }

NextAccess ==
    \/ CallerConnect
    \/ ReconnectTimerFire
    \/ Tick
    \/ \E i \in ConnIds : LoopSelect(i)
    \/ \E i \in ConnIds : ReadError(i)
    \/ \E i \in ConnIds, m \in AccessMessages : Recv(i, m)
    \/ NetworkFail
    \/ \E a \in Accessors : AccessorRLock(a)
    \/ AccessorRUnlock

SpecAccess == InitPing /\ [][NextAccess]_vars

\* The room-state specification: ROOMSTATE messages with and without the
\* slow and followers-only tags, repeated and changing, across failures.
RoomStateMessages ==
    { Msg("376", "", "", FALSE) } \cup
    { [cmd |-> "ROOMSTATE", room |-> r, nick |-> "", flag |-> FALSE,
       slow |-> s, followers |-> f] :
        r \in Rooms, s \in {"absent", "0", "30"}, f \in {"absent", "-1", "10"} }

NextRoomState ==
    \/ CallerConnect
    \/ ReconnectTimerFire
    \/ Tick
    \/ \E i \in ConnIds : LoopSelect(i)
    \/ \E i \in ConnIds : ReadError(i)
    \/ \E i \in ConnIds, m \in RoomStateMessages : Recv(i, m)
    \/ NetworkFail

SpecRoomState == InitPing /\ [][NextRoomState]_vars

\* ------------------------------------------------------------ EventEmitter
\* What a listener's function does when it runs: nothing, RemoveListener on
\* its own event type, or On with a new listener for its own event type.
Does == {"nothing", "remove", "add"}

Listener(id, does, once) == [id |-> id, does |-> does, once |-> once]

\* The body of RemoveListener(eventType, listener): delete(e.events, eventType).
RemoveListenerBody(evs, t, id) == [evs EXCEPT ![t] = <<>>]

\* The body of On(eventType, listener) with maxListeners = 0.
OnBody(evs, t, l) == [evs EXCEPT ![t] = Append(@, l)]

\* On(eventType, listener) and Once(eventType, listener): Once registers a
\* wrapper that calls RemoveListener and then the listener.
On(t, does, once) ==
    /\ Len(e_made) < MaxHandlers
    /\ LET l == Listener(Len(e_made) + 1, does, once)
       IN  /\ e_made' = Append(e_made, l)
           /\ e_events' = OnBody(e_events, t, l)
           /\ e_arg' = [type |-> t, id |-> l.id]
    /\ e_op' = IF once THEN "Once" ELSE "On"
    /\ UNCHANGED <<clientVars, queueVars, pureVars, e_emits, e_count, e_emitted>>

\* RemoveListener(eventType, listener) and Off, called from outside with a
\* listener that is registered for the event type.
RemoveListener(t, id) ==
    /\ \E k \in 1..Len(e_events[t]) : e_events[t][k].id = id
    /\ e_events' = RemoveListenerBody(e_events, t, id)
    /\ e_op' = "RemoveListener"
    /\ e_arg' = [type |-> t, id |-> id]
    /\ UNCHANGED <<clientVars, queueVars, pureVars, e_made, e_emits, e_count, e_emitted>>

\* An Emit loop over the live list.
EmitListenersLive(g) == e_events[e_emits[g].type]

\* The list the loop of Emit ranges over: listenersCopy.
EmitListeners(g) == e_emits[g].copy

\* Emit(eventType, args...) up to its loop: read the list under the read
\* lock, return false when it is empty, copy it.
EmitStart(g, t, a) ==
    /\ e_emits[g].pc # "loop"
    /\ e_emitted < MaxEmits
    /\ e_emitted' = e_emitted + 1
    /\ e_emits' = [e_emits EXCEPT ![g] =
                     [pc |-> IF e_events[t] = <<>> THEN "done" ELSE "loop",
                      type |-> t, arg |-> a, registered |-> e_events[t],
                      copy |-> e_events[t], called |-> <<>>]]
    /\ e_op' = "Emit"
    /\ e_arg' = [type |-> t, id |-> 0]
    /\ UNCHANGED <<clientVars, queueVars, pureVars, e_events, e_made, e_count>>

\* One round of Emit's loop: the next listener runs.  A Once wrapper calls
\* RemoveListener first; then the caller's function does what it does.
EmitCall(g) ==
    /\ e_emits[g].pc = "loop"
    /\ LET n == Len(e_emits[g].called) + 1
           l == EmitListeners(g)[n]
           t == e_emits[g].type
           unwrapped == IF l.once THEN RemoveListenerBody(e_events, t, l.id)
                        ELSE e_events
           fresh == Listener(Len(e_made) + 1, "nothing", FALSE)
       IN  /\ n <= Len(EmitListeners(g))
           /\ (l.does = "add") => Len(e_made) < MaxHandlers
           /\ e_events' = CASE l.does = "remove" -> RemoveListenerBody(unwrapped, t, l.id)
                              [] l.does = "add" -> OnBody(unwrapped, t, fresh)
                              [] OTHER -> unwrapped
           /\ e_made' = IF l.does = "add" THEN Append(e_made, fresh) ELSE e_made
           /\ e_count' = [e_count EXCEPT ![l.id] = @ + 1]
           /\ e_emits' = [e_emits EXCEPT
                            ![g].called = Append(@, <<l.id, e_emits[g].arg>>)]
           /\ e_arg' = [type |-> t, id |-> l.id]
    /\ e_op' = "listener"
    /\ UNCHANGED <<clientVars, queueVars, pureVars, e_emitted>>

\* Emit's loop is over: return true.
EmitReturn(g) ==
    /\ e_emits[g].pc = "loop"
    /\ Len(e_emits[g].called) >= Len(EmitListeners(g))
    /\ e_emits' = [e_emits EXCEPT ![g].pc = "done"]
    /\ e_op' = "EmitReturn"
    /\ e_arg' = [type |-> e_emits[g].type, id |-> 0]
    /\ UNCHANGED <<clientVars, queueVars, pureVars, e_events, e_made, e_count, e_emitted>>

\* The listeners the caller registers: for "message" a plain one, one that
\* removes, one that adds, and a Once listener; for "join" a plain one.
Registrations ==
    { <<"message", d, FALSE>> : d \in Does } \cup
    { <<"message", "nothing", TRUE>>, <<"join", "nothing", FALSE>> }

NextEmitter ==
    \/ \E r \in Registrations : On(r[1], r[2], r[3])
    \/ \E t \in EventTypes, id \in 1..MaxHandlers : RemoveListener(t, id)
    \/ \E g \in Goroutines, t \in EventTypes, a \in EmitArgs : EmitStart(g, t, a)
    \/ \E g \in Goroutines : EmitCall(g)
    \/ \E g \in Goroutines : EmitReturn(g)

SpecEmitter == InitPing /\ [][NextEmitter]_vars

\* ------------------------------------------------------------------- Queue
\* Queue.Add(fn, delay...): append; a missing delay is the zero value.  The
\* item's fn is named by the item's position.  ds is the variadic argument.
Add(ds) ==
    /\ ~q_started
    /\ Len(q_queue) < MaxItems
    /\ q_queue' = Append(q_queue, [delay |-> IF Len(ds) > 0 THEN ds[1] ELSE 0,
                                   given |-> Len(ds) > 0])
    /\ q_op' = "Add"
    /\ UNCHANGED <<clientVars, emitterVars, pureVars, q_index, q_defaultDelay, q_timers, q_calls, q_executed,
                   q_started, q_arg, q_clock>>

\* A cursor step that skips an item.
CursorSkip(i) == i + 2

\* Line 47: q.index++.
CursorAfter(i) == i + 1

\* An end test that lets the cursor run one past the end.
PastEndOffByOne(i, n) == i > n

\* Line 42: q.index >= len(q.queue).
PastEnd(i, n) == i >= n

\* Queue.Next() up to the call of item.fn: nothing past the end; otherwise
\* take the item at the cursor, advance the cursor, start the item's fn.
NextEnter ==
    IF PastEnd(q_index, Len(q_queue))
    THEN UNCHANGED <<q_index, q_calls, q_executed, q_clock>>
    ELSE /\ q_index' = CursorAfter(q_index)
         /\ q_calls' = Append(q_calls, "fn")
         /\ q_executed' = Append(q_executed, q_index + 1)
         /\ q_clock' = 0

\* Next() is invoked from outside, once.
ExternalNext ==
    /\ ~q_started
    /\ q_started' = TRUE
    /\ NextEnter
    /\ q_op' = "Next"
    /\ UNCHANGED <<clientVars, emitterVars, pureVars, q_queue, q_defaultDelay, q_timers, q_arg>>

\* Next() is invoked from outside again, after the queue has drained.
NextAgain ==
    /\ q_started
    /\ q_index >= Len(q_queue)
    /\ q_calls = <<>>
    /\ NextEnter
    /\ q_op' = "Next"
    /\ UNCHANGED <<clientVars, emitterVars, pureVars, q_queue, q_defaultDelay, q_timers, q_started, q_arg>>

\* A queue timer fires once its delay has elapsed and calls Next().
QueueTimerFire ==
    \E k \in 1..Len(q_timers) :
        /\ q_timers[k].elapsed >= q_timers[k].delay
        /\ q_timers' = RemoveAt(q_timers, k)
        /\ NextEnter
        /\ q_op' = "timerNext"
        /\ UNCHANGED <<clientVars, emitterVars, pureVars, q_queue, q_defaultDelay, q_started, q_arg>>

\* item.fn() returns to Next().
FnReturn ==
    \E c \in 1..Len(q_calls) :
        /\ q_calls[c] = "fn"
        /\ q_calls' = [q_calls EXCEPT ![c] = "sched"]
        /\ q_op' = "fn"
        /\ UNCHANGED <<clientVars, emitterVars, pureVars, q_queue, q_index, q_defaultDelay, q_timers,
                       q_executed, q_started, q_arg, q_clock>>

\* A delay that ignores the item's own delay.
NextDelayDefaultOnly == q_defaultDelay

\* The delay Next() hands to time.AfterFunc for the item at the cursor.
NextDelay ==
    IF q_queue[q_index + 1].delay = 0 THEN q_defaultDelay
    ELSE q_queue[q_index + 1].delay

\* Queue.Next() after item.fn returned: schedule the next item if one exists.
ScheduleNext ==
    \E c \in 1..Len(q_calls) :
        /\ q_calls[c] = "sched"
        /\ q_calls' = RemoveAt(q_calls, c)
        /\ q_timers' = IF q_index < Len(q_queue)
                       THEN Append(q_timers, [delay |-> NextDelay, elapsed |-> 0])
                       ELSE q_timers
        /\ q_op' = "schedule"
        /\ UNCHANGED <<clientVars, emitterVars, pureVars, q_queue, q_index, q_defaultDelay, q_executed,
                       q_started, q_arg, q_clock>>

\* One unit of time passes for every pending queue timer.
QueueTick ==
    /\ \E k \in 1..Len(q_timers) : q_timers[k].elapsed < q_timers[k].delay
    /\ q_timers' = [k \in 1..Len(q_timers) |->
                      [q_timers[k] EXCEPT !.elapsed = Min(@ + 1, q_timers[k].delay)]]
    /\ q_clock' = q_clock + 1
    /\ q_op' = "tick"
    /\ UNCHANGED <<clientVars, emitterVars, pureVars, q_queue, q_index, q_defaultDelay, q_calls, q_executed,
                   q_started, q_arg>>

InitQueue ==
    /\ InitWith({[Backoff |-> DefaultBackoff, Reconnect |-> TRUE,
                  MaxReconnectAttempts |-> 1, anon |-> FALSE, Channels |-> <<>>,
                  JoinInterval |-> 0]})
    /\ \E d \in 0..MaxDelay : NewQueue(d)
    /\ NewEventEmitter /\ NoCall

NextQueue ==
    \/ \E ds \in {<<>>} \cup { <<d>> : d \in 0..MaxDelay } : Add(ds)
    \/ ExternalNext
    \/ NextAgain
    \/ QueueTimerFire
    \/ FnReturn
    \/ ScheduleNext
    \/ QueueTick

\* The Go runtime runs every goroutine and fires every timer that is due.
SpecQueue == InitQueue /\ [][NextQueue]_vars /\ WF_vars(NextQueue)

\* ------------------------------------------------------------------ parser
\* A string is a sequence of characters.  Positions count from 0 as in Go:
\* Slice(s, a, b) is s[a:b].
Slice(s, a, b) == SubSeq(s, a + 1, b)

\* strings.Index(s, ch): the first index (from 0) of ch in s, or -1.
Index(s, ch) ==
    IF \E k \in 1..Len(s) : s[k] = ch
    THEN (CHOOSE k \in 1..Len(s) : s[k] = ch /\ \A j \in 1..(k - 1) : s[j] # ch) - 1
    ELSE -1

\* strings.Index(data[position:], " ") with position added back, or -1.
NextSpace(data, position) ==
    LET nextspace == Index(Slice(data, position, Len(data)), " ")
    IN  IF nextspace = -1 THEN -1 ELSE nextspace + position

\* strings.Split(s, sep) for a one-character separator.
RECURSIVE Split(_, _)
Split(s, sep) ==
    LET i == Index(s, sep)
    IN  IF i = -1 THEN <<s>>
        ELSE <<Slice(s, 0, i)>> \o Split(Slice(s, i + 1, Len(s)), sep)

\* A step over blanks that takes at most one.
SkipOneSpace(data, position) ==
    IF position < Len(data) /\ data[position + 1] = " " THEN position + 1 ELSE position

\* for position < len(data) && data[position] == ' ' { position++ }
SkipSpaces(data, position) ==
    IF \E p \in position..(Len(data) - 1) : data[p + 1] # " "
    THEN CHOOSE p \in position..(Len(data) - 1) :
            data[p + 1] # " " /\ \A q \in position..(p - 1) : data[q + 1] = " "
    ELSE Max(position, Len(data))

\* A tag value: true for a tag without a value, otherwise the text.
TagTrue == [true |-> TRUE, value |-> <<>>]
TagText(v) == [true |-> FALSE, value |-> v]

\* The loop over rawTags: message.Tags[key] = value, later tags overwriting
\* earlier ones of the same key.
RECURSIVE ParseTags(_)
ParseTags(rawTags) ==
    IF rawTags = <<>> THEN <<>>
    ELSE LET tag == rawTags[Len(rawTags)]
             idx == Index(tag, "=")
             key == IF idx = -1 THEN tag ELSE Slice(tag, 0, idx)
             value == IF idx = -1 THEN <<>> ELSE Slice(tag, idx + 1, Len(tag))
             entry == [key |-> key,
                       value |-> IF value = <<>> THEN TagTrue ELSE TagText(value)]
             before == ParseTags(SubSeq(rawTags, 1, Len(rawTags) - 1))
         IN  SelectSeq(before, LAMBDA e : e.key # key) \o <<entry>>

\* The parameter loop of ParseMessage from position on.
RECURSIVE ParseParams(_, _)
ParseParams(data, position) ==
    IF position >= Len(data) THEN <<>>
    ELSE IF data[position + 1] = ":" THEN <<Slice(data, position + 1, Len(data))>>
    ELSE LET nextspace == NextSpace(data, position)
         IN  IF nextspace = -1 THEN <<Slice(data, position, Len(data))>>
             ELSE <<Slice(data, position, nextspace)>>
                  \o ParseParams(data, SkipSpaces(data, nextspace + 1))

\* The nil *IRCMessage, and an IRCMessage (Tags as the sequence of its
\* entries in the order the keys were last written).
NoMessage == [nil |-> TRUE, Tags |-> <<>>, Prefix |-> <<>>, Command |-> <<>>, Params |-> <<>>]
IRCMessage(tags, prefix, command, params) ==
    [nil |-> FALSE, Tags |-> tags, Prefix |-> prefix, Command |-> command,
     Params |-> params]

\* ParseMessage(data).
ParseMessage(data) ==
    IF data = <<>> THEN NoMessage
    ELSE
    LET hasTags == data[1] = "@"
        tagEnd == Index(data, " ")
    IN  IF hasTags /\ tagEnd = -1 THEN NoMessage
        ELSE
        LET tags == IF hasTags THEN ParseTags(Split(Slice(data, 1, tagEnd), ";")) ELSE <<>>
            p1 == SkipSpaces(data, IF hasTags THEN tagEnd + 1 ELSE 0)
            hasPrefix == p1 < Len(data) /\ data[p1 + 1] = ":"
            prefixEnd == NextSpace(data, p1)
        IN  IF hasPrefix /\ prefixEnd = -1 THEN NoMessage
            ELSE
            LET prefix == IF hasPrefix THEN Slice(data, p1 + 1, prefixEnd) ELSE <<>>
                p2 == IF hasPrefix THEN SkipSpaces(data, prefixEnd + 1) ELSE p1
                commandEnd == NextSpace(data, p2)
            IN  IF commandEnd = -1
                THEN IF Len(data) > p2
                     THEN IRCMessage(tags, prefix, Slice(data, p2, Len(data)), <<>>)
                     ELSE NoMessage
                ELSE IRCMessage(tags, prefix, Slice(data, p2, commandEnd),
                                ParseParams(data, SkipSpaces(data, commandEnd + 1)))

\* The state after construction with no client activity and one of the
\* given arguments for the function under study.
InitPure(inputs) ==
    /\ InitWith({[Backoff |-> DefaultBackoff, Reconnect |-> TRUE,
                  MaxReconnectAttempts |-> 1, anon |-> FALSE, Channels |-> <<"#a">>,
                  JoinInterval |-> 0]})
    /\ NewQueue(0)
    /\ NewEventEmitter
    /\ input \in inputs
    /\ output = <<>>
    /\ fn = "none"

\* Every sequence over the alphabet of length at most n.
RECURSIVE Strings(_, _)
Strings(alphabet, n) ==
    IF n = 0 THEN {<<>>}
    ELSE LET shorter == Strings(alphabet, n - 1)
         IN  shorter \cup { Append(t, c) : t \in shorter, c \in alphabet }

\* The lines the parser is given: every line of at most MaxLineLen
\* characters out of the block markers, the blank and a letter, and lines
\* with a tag block of several tags.
Lines ==
    Strings({"@", ":", " ", "a"}, MaxLineLen)
    \cup { <<"@", "a", "=", "b", ";", "c", " ", ":", "p", " ", "C", " ", "x", " ",
             ":", "y", " ", "z">>,
           <<"@", "a", "=", "b", ";", "a", "=", ";", "c", "=", "d", " ", " ", "C",
             " ", " ", "x", " ">> }

\* The caller parses the line.
CallParseMessage ==
    /\ fn = "none"
    /\ output' = ParseMessage(input)
    /\ fn' = "ParseMessage"
    /\ UNCHANGED <<clientVars, queueVars, emitterVars, input>>

InitParse == InitPure(Lines)

SpecParse == InitParse /\ [][CallParseMessage]_vars

\* ---------------------------------------------------------------- escaping
\* The characters: "LF" and "CR" stand for line feed and carriage return,
\* "\\" is one backslash.
LF == "LF"
CR == "CR"
Backslash == "\\"

\* ircUnescapedChars: what EscapeIRC writes after a backslash for ch.
ircUnescapedChars ==
    [ch \in {" ", LF, ";", CR, Backslash} |->
        CASE ch = " " -> "s"
          [] ch = LF -> "n"
          [] ch = ";" -> ":"
          [] ch = CR -> "r"
          [] ch = Backslash -> Backslash]

\* A table that gives line feed and carriage return back.
ircEscapedCharsKeepNewlines ==
    [ch \in {"s", "n", ":", "r", Backslash} |->
        CASE ch = "s" -> <<" ">>
          [] ch = "n" -> <<LF>>
          [] ch = ":" -> <<";">>
          [] ch = "r" -> <<CR>>
          [] ch = Backslash -> <<Backslash>>]

\* ircEscapedChars: what UnescapeIRC writes for the character after a
\* backslash ("n" and "r" give the empty string).
ircEscapedChars ==
    [ch \in {"s", "n", ":", "r", Backslash} |->
        CASE ch = "s" -> <<" ">>
          [] ch = "n" -> <<>>
          [] ch = ":" -> <<";">>
          [] ch = "r" -> <<>>
          [] ch = Backslash -> <<Backslash>>]

\* EscapeIRC(msg).
RECURSIVE EscapeIRC(_)
EscapeIRC(msg) ==
    IF msg = <<>> THEN msg
    ELSE (IF msg[1] \in DOMAIN ircUnescapedChars
          THEN <<Backslash, ircUnescapedChars[msg[1]]>>
          ELSE <<msg[1]>>) \o EscapeIRC(Tail(msg))

\* The loop of UnescapeIRC over msg with its flag escaped.
RECURSIVE UnescapeLoop(_, _)
UnescapeLoop(msg, escaped) ==
    IF msg = <<>> THEN <<>>
    ELSE IF escaped
    THEN (IF msg[1] \in DOMAIN ircEscapedChars THEN ircEscapedChars[msg[1]]
          ELSE <<msg[1]>>) \o UnescapeLoop(Tail(msg), FALSE)
    ELSE IF msg[1] = Backslash THEN UnescapeLoop(Tail(msg), TRUE)
    ELSE <<msg[1]>> \o UnescapeLoop(Tail(msg), FALSE)

\* UnescapeIRC(msg).
UnescapeIRC(msg) ==
    IF msg = <<>> \/ ~InSeq(msg, Backslash) THEN msg ELSE UnescapeLoop(msg, FALSE)

\* The texts the two functions are given.
TagTexts == Strings({" ", ";", Backslash, LF, CR, "s", "a"}, MaxTagLen)

\* The caller escapes the text.
CallEscapeIRC ==
    /\ fn = "none"
    /\ output' = EscapeIRC(input)
    /\ fn' = "EscapeIRC"
    /\ UNCHANGED <<clientVars, queueVars, emitterVars, input>>

\* The caller unescapes the text, or what EscapeIRC made of it.
CallUnescapeIRC ==
    /\ fn \in {"none", "EscapeIRC"}
    /\ output' = UnescapeIRC(IF fn = "none" THEN input ELSE output)
    /\ fn' = IF fn = "none" THEN "UnescapeIRC" ELSE "EscapeIRC, UnescapeIRC"
    /\ UNCHANGED <<clientVars, queueVars, emitterVars, input>>

InitEscape == InitPure(TagTexts)

NextEscape == CallEscapeIRC \/ CallUnescapeIRC

SpecEscape == InitEscape /\ [][NextEscape]_vars

\* ----------------------------------------------------------- normalisation
\* strings.TrimSpace(s): s without its leading and trailing blanks.
RECURSIVE TrimRight(_)
TrimRight(s) ==
    IF s # <<>> /\ s[Len(s)] = " " THEN TrimRight(SubSeq(s, 1, Len(s) - 1)) ELSE s

RECURSIVE TrimSpace(_)
TrimSpace(s) ==
    IF s # <<>> /\ s[1] = " " THEN TrimSpace(Tail(s)) ELSE TrimRight(s)

\* strings.ToLower(s) over the letters of the alphabet.
ToLower(s) == [k \in 1..Len(s) |-> IF s[k] = "A" THEN "a" ELSE s[k]]

\* Channel(str) on the characters of str.
ChannelString(str) ==
    LET channel == ToLower(TrimSpace(str))
    IN  IF channel = <<>> THEN <<"#">>
        ELSE IF HasPrefix(channel, <<"#">>) THEN channel
        ELSE <<"#">> \o channel

\* Username(str) on the characters of str.
UsernameString(str) ==
    LET username == ToLower(TrimSpace(str))
    IN  IF username = <<>> THEN <<>>
        ELSE IF HasPrefix(username, <<"#">>) THEN Tail(username)
        ELSE username

\* The raw names the two functions are given.
RawNames == Strings({"#", " ", "a", "A"}, MaxNameLen)

\* The caller normalises the raw name as a room, or normalises the result
\* of Channel again.
CallChannel ==
    /\ fn \in {"none", "Channel"}
    /\ output' = ChannelString(IF fn = "none" THEN input ELSE output)
    /\ fn' = IF fn = "none" THEN "Channel" ELSE "Channel, Channel"
    /\ UNCHANGED <<clientVars, queueVars, emitterVars, input>>

\* The caller normalises the raw name as a user, or normalises the result
\* of Username again.
CallUsername ==
    /\ fn \in {"none", "Username"}
    /\ output' = UsernameString(IF fn = "none" THEN input ELSE output)
    /\ fn' = IF fn = "none" THEN "Username" ELSE "Username, Username"
    /\ UNCHANGED <<clientVars, queueVars, emitterVars, input>>

InitNormalize == InitPure(RawNames)

NextNormalize == CallChannel \/ CallUsername

SpecNormalize == InitNormalize /\ [][NextNormalize]_vars

\* ===================================================================== claims
CountOf(s, x) == Cardinality({k \in 1..Len(s) : s[k] = x})

NoDuplicates(s) == \A j, k \in 1..Len(s) : (s[j] = s[k]) => (j = k)

\* C1: when the failure path runs with the close not requested by the caller
\* and the attempt counter below the maximum, it increments the counter by
\* exactly one, emits 'disconnected' and then exactly one 'reconnect', and
\* schedules exactly one Connect() whose delay is the current backoff
\* interval; a scheduled Connect() runs only once its delay has elapsed.
C1_FailurePathSchedulesReconnect ==
    [][ /\ (op' = "handleError" /\ ~wasCloseCalled
               /\ reconnections < opts.MaxReconnectAttempts)
            => /\ reconnections' = reconnections + 1
               /\ events' = <<"disconnected", "reconnect">>
               /\ timers' = Append(timers, [delay |-> reconnectTimer, elapsed |-> 0,
                                            by |-> "handleError"])
        /\ (op' = "timerConnect")
            => \E k \in 1..Len(timers) :
                   /\ timers[k].elapsed >= timers[k].delay
                   /\ timers' = RemoveAt(timers, k) ]_vars

\* C1 witness: a Connect() scheduled by the failure path has run, after a
\* backoff interval that had grown beyond the base.
C1_Witness ==
    /\ op = "timerConnect"
    /\ reconnections >= 1
    /\ ~wasCloseCalled
    /\ reconnecting = FALSE
    /\ connects >= 2

\* C2: a failed socket open or handshake write inside a scheduled reconnect
\* Connect(), with the close not requested and attempts not exhausted, does
\* not stop the retrying: a reconnect timer is pending or a read loop is
\* alive that will run the failure path.
C2_FailedReconnectKeepsRetrying ==
    (op = "timerConnect" /\ ret = "err" /\ reconnect /\ ~wasCloseCalled
        /\ reconnections < opts.MaxReconnectAttempts)
    => (timers # <<>> \/ \E i \in ConnIds : loopPc[i] # "none")

\* C3: a client constructed with the reconnect flag set to false emits no
\* 'reconnect' event and schedules no Connect() in the failure path.
C3_ReconnectFlagHonoured ==
    (op = "handleError" /\ ~opts.Reconnect)
    => (CountOf(events, "reconnect") = 0 /\ timers = <<>>)

\* C4: the attempt counter never exceeds the configured maximum, and the
\* failure path run with the counter at the maximum emits 'maxreconnect',
\* emits no 'reconnect' and schedules no Connect().
C4_AttemptsBounded ==
    /\ [](reconnections <= opts.MaxReconnectAttempts)
    /\ [][ (op' = "handleError" /\ reconnections = opts.MaxReconnectAttempts)
             => /\ events' = <<"disconnected", "maxreconnect">>
                /\ timers' = timers
                /\ reconnections' = reconnections ]_vars

\* C4 witness: the failure path has run with the counter at the maximum.
C4_Witness ==
    /\ op = "handleError"
    /\ reconnections = opts.MaxReconnectAttempts
    /\ events = <<"disconnected", "maxreconnect">>

RECURSIVE Power(_, _)
Power(b, k) == IF k = 0 THEN 1 ELSE b * Power(b, k - 1)

\* min(base * decay^k, maximum), in whole time units.
ClosedFormBackoff(k) ==
    Min((opts.Backoff.ReconnectInterval * Power(opts.Backoff.ReconnectDecayNum, k))
            \div Power(opts.Backoff.ReconnectDecayDen, k),
        opts.Backoff.MaxReconnectInterval)

\* The base with the step "multiply by the decay factor, truncate, cap at
\* the maximum" applied k times.
RECURSIVE SteppedBackoff(_)
SteppedBackoff(k) ==
    IF k = 0 THEN opts.Backoff.ReconnectInterval
    ELSE Min((SteppedBackoff(k - 1) * opts.Backoff.ReconnectDecayNum)
                 \div opts.Backoff.ReconnectDecayDen,
             opts.Backoff.MaxReconnectInterval)

\* C5 as stated: in every state the backoff interval is min(base * decay^k,
\* maximum) for the k Connect() calls since the last 376 or construction, a
\* processed 376 resets interval and counter, and no scheduled reconnect
\* waits longer than the configured maximum.
C5_ClosedFormBackoff ==
    /\ reconnectTimer = ClosedFormBackoff(connects)
    /\ (op = "376" => (reconnectTimer = opts.Backoff.ReconnectInterval /\ reconnections = 0))
    /\ \A k \in 1..Len(timers) : timers[k].delay <= opts.Backoff.MaxReconnectInterval

\* C5 amended: the backoff interval is the base with the step "multiply by
\* the decay factor, truncate to a whole duration, cap at the maximum"
\* applied once per Connect() call since the last 376 or construction; a
\* processed 376 resets the interval to the base and the counter to zero; no
\* scheduled reconnect waits longer than the larger of base and maximum.
C5_SteppedBackoff ==
    /\ reconnectTimer = SteppedBackoff(connects)
    /\ (op = "376" => (reconnectTimer = opts.Backoff.ReconnectInterval /\ reconnections = 0))
    /\ \A k \in 1..Len(timers) :
          timers[k].delay <= Max(opts.Backoff.ReconnectInterval,
                                 opts.Backoff.MaxReconnectInterval)

\* C5 witness: after a 376 reset the interval to the base, two Connect()
\* calls have grown it and the second growth was cut by the cap.
C5_Witness ==
    /\ connects >= 2
    /\ reconnectTimer = opts.Backoff.MaxReconnectInterval
    /\ reconnectTimer > opts.Backoff.ReconnectInterval
    /\ Trunc(SteppedBackoff(connects - 1), opts.Backoff.ReconnectDecayNum,
             opts.Backoff.ReconnectDecayDen) > opts.Backoff.MaxReconnectInterval
    /\ \E i \in ConnIds : welcomed[i]

\* C6: after the failure path has run the moderator and user-state maps are
\* empty, the global user state is empty, the keep-alive ticker and every
\* pending ping-timeout timer are stopped, no socket is held, and exactly
\* one 'disconnected' event was emitted.
C6_FailurePathClearsEverything ==
    (op = "handleError")
    => /\ moderators = NoModerators
       /\ userState = {}
       /\ globalUserState = "empty"
       /\ pingLoop # "running"
       /\ pingTimeout \notin {"ticker", "Ping"}
       /\ stalePings = <<>>
       /\ ws = NoConn
       /\ CountOf(events, "disconnected") = 1

\* C7: whenever a connection is established, no moderator, user-state or
\* global user-state entry of an earlier connection is visible.
C7_NoStateAcrossConnections ==
    (op \in {"Connect", "timerConnect"} /\ ret = "ok")
    => /\ moderators = NoModerators
       /\ userState = {}
       /\ globalUserState = "empty"

\* C8: on a welcomed, open connection a room is in the joined-rooms sequence
\* if and only if its self-join was acknowledged on this connection and no
\* self-PART for it was processed since.
C8_JoinedIffAcknowledged ==
    (ws # NoConn /\ sock[ws] = "open" /\ welcomed[ws])
    => \A r \in Rooms : InSeq(channels, r) <=> (r \in acked)

\* C9: the joined-rooms sequence never contains a room twice.
C9_ChannelsUnique == NoDuplicates(channels)

Ordered(s) == \A k \in 1..Len(s) : s[k] = k

OwedDelay(k) ==
    IF q_queue[k].given THEN q_queue[k].delay
    ELSE IF q_arg = 0 THEN QueueFallbackDelay ELSE q_arg

FirstOccurrences(s) ==
    LET idx == {k \in 1..Len(s) : \A j \in 1..(k - 1) : s[j] # s[k]}
        n == Cardinality(idx)
        f == CHOOSE g \in [1..n -> idx] : \A a, b \in 1..n : (a < b) => (g[a] < g[b])
    IN  [a \in 1..n |-> s[f[a]]]

\* The client holds a socket that is open.
Connected == ws # NoConn /\ sock[ws] = "open"

C14_NoStaleTimerActs ==
    [][ \A k \in 1..Len(joinTimers) :
          (/\ op' = "Queue.Next"
           /\ joinTimers[k].conn # ws
           /\ joinTimers' = IF Len(joinTimers[k].rooms) > 1
                            THEN [joinTimers EXCEPT ![k].rooms = Tail(@)]
                            ELSE RemoveAt(joinTimers, k))
          => written' = <<>> ]_vars

\* C15: a Disconnect() that finds a socket marks the close as requested,
\* closes the socket and cancels the read loop's context; once the caller
\* has disconnected, the failure path emits no 'reconnect' and schedules
\* no Connect().
C15_DisconnectSuppressesReconnect ==
    [][ /\ (op' = "Disconnect" /\ ws # NoConn)
            => (wasCloseCalled' /\ sock'[ws] = "closed" /\ ctxDone')
        /\ (op' = "handleError" /\ callerClosed)
            => (CountOf(events', "reconnect") = 0 /\ timers' = timers) ]_vars

\* C16: Disconnect() called before the first Connect(), after the failure
\* path has run, or again after an earlier Disconnect() took effect returns
\* an error, emits no event and changes no state.
C16_DisconnectWhenNotConnected ==
    [][ (op' = "Disconnect" /\ (ws = NoConn \/ callerClosed))
          => /\ ret' = "err"
             /\ events' = <<>>
             /\ UNCHANGED <<ws, sock, ctxDone, wasCloseCalled>> ]_vars

\* C17: unless the caller has disconnected, the read loop of the current
\* connection does not return while that connection's socket is open; in
\* particular the loop of the connection opened after a RECONNECT reads.
C17_ReconnectedLoopReads ==
    [][ \A i \in ConnIds :
          (/\ op' = "handleMessages"
           /\ loopPc[i] = "select" /\ loopPc'[i] = "none"
           /\ ws = i /\ sock[i] = "open")
          => callerClosed ]_vars

\* C18: when the timeout of an unanswered PING fires on an open socket
\* (the caller not having disconnected), it closes that socket, the close
\* is not marked as requested, and a read loop is there to run the failure
\* path on it.
C18_PingTimeoutRunsFailurePath ==
    [][ (op' = "pingTimeout" /\ Connected /\ pingsOut > 0 /\ ~callerClosed)
          => /\ sock'[ws] = "closed"
             /\ ~wasCloseCalled'
             /\ \/ \E i \in ConnIds : loopPc[i] = "read" /\ loopRd[i] = ws
                \/ ~ctxDone /\ \E i \in ConnIds : loopPc[i] = "select" ]_vars

\* C19: a dispatched PONG emits one 'pong' event and leaves the timer that
\* state.pingTimeout names stopped; no ping timeout closes a socket while
\* every PING that was sent has been answered.
C19_AnsweredPingsNeverTimeOut ==
    [][ /\ (op' = "PONG")
            => (CountOf(events', "pong") = 1 /\ pingTimeout' \notin {"ticker", "Ping"})
        /\ (op' = "pingTimeout" /\ sock' # sock) => (pingsOut > 0) ]_vars

\* C20: a dispatched PING emits exactly one 'ping' event; exactly one PONG
\* frame goes out when the client holds an open socket, and no frame is
\* written when it holds no socket.
C20_PingAnswered ==
    [][ (op' = "PING")
          => /\ CountOf(events', "ping") = 1
             /\ Connected => (written' = <<<<"PONG", "">>>>)
             /\ (ws = NoConn) => (written' = <<>>) ]_vars

\* C20 witness: a PING read from an abandoned socket was dispatched while
\* the client held no socket: the event was emitted and nothing written.
C20_Witness ==
    /\ op = "PING"
    /\ ws = NoConn
    /\ written = <<>>
    /\ CountOf(events, "ping") = 1

\* C21: inbound messages are dispatched one at a time: in every reachable
\* state at most one read loop is inside handleMessage.
C21_OneDispatchAtATime ==
    Cardinality({ i \in ConnIds : loopPc[i] = "dispatch" }) <= 1

\* C22: connection state is read and written under one lock: while an
\* accessor holds the read lock of the client mutex, no step changes the field
\* that accessor reads (a writer holding the write lock cannot step then).
C22_AccessorsExcludeWriters ==
    [][ /\ (mu = "GetChannels" => channels' = channels)
        /\ (mu = "IsMod" => moderators' = moderators)
        /\ (mu = "ReadyState" => ws' = ws) ]_vars

OutboundOps ==
    {"Say", "Action", "Reply", "Announce", "Join", "JoinMultiple", "Part",
     "Command", "Whisper", "Raw", "Ping"}

\* C23: an outbound operation invoked while the client is not connected
\* returns an error, writes nothing and leaves the connection state as it
\* was, the ping-timeout timer included.
C23_NotConnectedFailsCleanly ==
    [][ (op' \in OutboundOps /\ ws = NoConn)
          => /\ ret' = "err"
             /\ written' = <<>>
             /\ UNCHANGED <<connVars, backoffVars, wasCloseCalled, roomVars,
                            pingVars, joinTimers>> ]_vars

ChatOps == {"Say", "Action", "Reply", "Announce"}

\* C24: in an anonymous session every chat-sending operation returns an
\* error and writes no frame, whatever the text.
C24_AnonymousCannotChat ==
    [][ (op' \in ChatOps /\ IsJustinfan) => (ret' = "err" /\ written' = <<>>) ]_vars

RECURSIVE Concat(_)
Concat(ss) == IF ss = <<>> THEN <<>> ELSE Head(ss) \o Concat(Tail(ss))

\* The payload p is the part of the text rem up to its last space within the
\* first 500 characters, or the first 500 characters when there is none.
CutAtLastSpace(p, rem) ==
    LET spaces == { j \in 1..Min(Len(rem), 500) : rem[j] = " " }
    IN  IF spaces = {}
        THEN Len(p) = 500
        ELSE Len(p) = (CHOOSE j \in spaces : \A k \in spaces : k <= j) - 1

\* The payloads out are the text cut as the claim says.
SplitAsClaimed(text, out) ==
    /\ Len(out) >= 2
    /\ \A k \in 1..Len(out) : Len(out[k]) <= 500
    /\ Concat(out) = text
    /\ \A k \in 1..(Len(out) - 1) :
          CutAtLastSpace(out[k], SubSeq(text, Len(Concat(SubSeq(out, 1, k - 1))) + 1,
                                        Len(text)))

\* C25: a chat text longer than 500 characters goes out as at least two
\* PRIVMSG frames in text order, each payload at most 500 characters, each
\* cut at the last space within the first 500 characters or at 500, the
\* payloads together being the text: a call that has sent a first part
\* finishes, and a call that finished without an error has sent just that.
C25_LongTextIsSplit ==
    /\ [](( /\ say.pc = "done" /\ Len(say.text) > 500 /\ Len(say.out) < MaxFrames
            /\ op \in {"Say", "sendMessage"} /\ ret = "ok" )
          => SplitAsClaimed(say.text, say.out))
    /\ ((say.pc = "sleep") ~> (say.pc = "done"))

SetOf(s) == { s[k] : k \in 1..Len(s) }

C27_EmitCallsSnapshot ==
    \A g \in Goroutines :
        e_emits[g].pc # "idle" =>
            LET call == e_emits[g]
            IN  /\ Len(call.called) <= Len(call.registered)
                /\ \A k \in 1..Len(call.called) :
                      call.called[k] = <<call.registered[k].id, call.arg>>
                /\ (call.pc = "done" => Len(call.called) = Len(call.registered))

\* An Emit over two listeners has returned; the first one removed listeners
\* while it ran.
C27_Witness ==
    \E g \in Goroutines :
        /\ e_emits[g].pc = "done"
        /\ Len(e_emits[g].registered) = 2
        /\ e_emits[g].registered[1].does = "remove"
        /\ Len(e_emits[g].called) = 2

\* Taking one listener out of an event type's list.
RemoveOnlyThat(evs, t, id) ==
    [evs EXCEPT ![t] = SelectSeq(@, LAMBDA l : l.id # id)]

\* C28: RemoveListener(event, l) takes l out of the event's listeners and
\* leaves every other listener of that event and of other events registered.
C28_RemoveListenerRemovesOne ==
    [][ e_op' = "RemoveListener"
          => e_events' = RemoveOnlyThat(e_events, e_arg'.type, e_arg'.id) ]_vars

\* C29: the function of a Once listener runs at most once, whatever Emit
\* calls run and however they interleave; once it has run it is registered
\* no more; its run leaves the other listeners of the event registered.
C29_OnceRunsOnce ==
    /\ [](\A id \in 1..Len(e_made) :
            e_made[id].once =>
                /\ e_count[id] <= 1
                /\ e_count[id] = 1 =>
                      \A t \in EventTypes : \A k \in 1..Len(e_events[t]) :
                          e_events[t][k].id # id)
    /\ [][ (e_op' = "listener" /\ e_made[e_arg'.id].once)
            => e_events' = RemoveOnlyThat(e_events, e_arg'.type, e_arg'.id) ]_vars

DerivedSlow == {"slow", "slowmode"}
DerivedFollowers == {"followersonly", "followersmode"}

\* C30: a ROOMSTATE emits 'roomstate' once, and a derived slow-mode
\* (followers-mode) event only when its slow (followers-only) tag differs
\* from the value last seen for the room.
C30_RoomStateDiffs ==
    [][ op' = "ROOMSTATE" =>
          /\ CountOf(events', "roomstate") = 1
          /\ (\A r \in Rooms : roomSeen'[r].slow = roomSeen[r].slow)
                => \A k \in 1..Len(events') : events'[k] \notin DerivedSlow
          /\ (\A r \in Rooms : roomSeen'[r].followers = roomSeen[r].followers)
                => \A k \in 1..Len(events') : events'[k] \notin DerivedFollowers ]_vars

\* The caller's Connect() has just returned without an error.
ManualConnectSucceeded == op = "Connect" /\ ret = "ok"

\* The read loop that Connect() started is about to call ReadMessage.
LoopWillRead == \E i \in ConnIds : loopPc[i] = "select" /\ ws = i /\ ~ctxDone

\* C31: when 'maxreconnect' has been emitted the client stays usable: a
\* caller's Connect() that follows and succeeds starts a read loop that reads and
\* dispatches, the final welcome it dispatches sets the attempt counter to
\* zero, and a failure of a welcomed connection whose close nobody asked
\* for is retried.
C31_ReusableAfterMaxReconnect ==
    /\ [][ (InSeq(events, "maxreconnect") /\ ManualConnectSucceeded')
           => LoopWillRead' ]_vars
    /\ [][ (op' = "376") => (reconnections' = 0) ]_vars
    /\ [][ (op' = "handleError" /\ reconnections = 0 /\ ~wasCloseCalled)
           => InSeq(events', "reconnect") ]_vars

\* The string without its leading blanks.
RECURSIVE TrimLeft(_)
TrimLeft(s) == IF s # <<>> /\ s[1] = " " THEN TrimLeft(Tail(s)) ELSE s

\* The characters of s before its first blank, and what follows that blank.
RECURSIVE FirstToken(_)
FirstToken(s) ==
    IF s = <<>> \/ s[1] = " " THEN <<>> ELSE <<s[1]>> \o FirstToken(Tail(s))

RECURSIVE AfterToken(_)
AfterToken(s) ==
    IF s = <<>> THEN <<>> ELSE IF s[1] = " " THEN Tail(s) ELSE AfterToken(Tail(s))

\* A block that begins with the marker: present, and never ended by a blank.
BlockOpen(s, marker) == s # <<>> /\ s[1] = marker
Unterminated(s) == \A k \in 1..Len(s) : s[k] # " "

\* What is left of the line after the optional tag block, and after the
\* optional prefix block, and the blanks that follow them.
AfterTags(s) == TrimLeft(IF BlockOpen(s, "@") THEN AfterToken(s) ELSE s)
AfterPrefix(s) ==
    IF BlockOpen(AfterTags(s), ":") THEN TrimLeft(AfterToken(AfterTags(s)))
    ELSE AfterTags(s)

NoMessageClaimed(s) ==
    \/ s = <<>>
    \/ BlockOpen(s, "@") /\ Unterminated(s)
    \/ ~(BlockOpen(s, "@") /\ Unterminated(s))
         /\ BlockOpen(AfterTags(s), ":") /\ Unterminated(AfterTags(s))
    \/ ~(BlockOpen(s, "@") /\ Unterminated(s))
         /\ ~(BlockOpen(AfterTags(s), ":") /\ Unterminated(AfterTags(s)))
         /\ AfterPrefix(s) = <<>>

\* The blank-separated tokens of s, a token that begins with ':' being the
\* rest of s without the ':'.
RECURSIVE ParamTokens(_)
ParamTokens(s) ==
    LET r == TrimLeft(s)
    IN  IF r = <<>> THEN <<>>
        ELSE IF r[1] = ":" THEN <<Tail(r)>>
        ELSE <<FirstToken(r)>> \o ParamTokens(AfterToken(r))

\* C32: ParseMessage returns no message exactly for the empty line, a tag or
\* prefix block that no blank ends, and a line with nothing left for the
\* command; otherwise the command is the first token after the blocks and
\* the parameters are the tokens after it, a token that begins with ':'
\* taking the rest of the line as the last parameter.
C32_ParseMessageTokens ==
    (fn = "ParseMessage") =>
        /\ output.nil <=> NoMessageClaimed(input)
        /\ ~output.nil =>
             /\ output.Command = FirstToken(AfterPrefix(input))
             /\ output.Params = ParamTokens(AfterToken(AfterPrefix(input)))

C32_Witness ==
    /\ fn = "ParseMessage"
    /\ ~output.nil
    /\ Len(output.Tags) = 2
    /\ output.Prefix = <<"p">>
    /\ output.Command = <<"C">>
    /\ output.Params = << <<"x">>, <<"y", " ", "z">> >>

\* The text without its line feeds and carriage returns.
WithoutNewlines(s) == SelectSeq(s, LAMBDA ch : ch \notin {LF, CR})

\* The text is one unrecognised escape sequence between two texts that
\* hold no backslash: the place of the backslash.
UnrecognisedAt(s) ==
    { k \in 1..(Len(s) - 1) :
        /\ s[k] = Backslash
        /\ s[k + 1] \notin {"s", "n", ":", "r", Backslash}
        /\ \A j \in 1..Len(s) : (s[j] = Backslash) => (j = k) }

\* C33: unescaping an escaped text gives the text back without its line
\* feeds and carriage returns (the text itself when it has none), and
\* unescaping an unrecognised escape sequence drops the backslash and keeps
\* the character after it.
C33_EscapeRoundTrip ==
    /\ (fn = "EscapeIRC, UnescapeIRC") => (output = WithoutNewlines(input))
    /\ (fn = "UnescapeIRC") =>
          \A k \in UnrecognisedAt(input) :
              output = SubSeq(input, 1, k - 1) \o SubSeq(input, k + 1, Len(input))

C33_Witness ==
    /\ fn = "EscapeIRC, UnescapeIRC"
    /\ input = <<" ", LF, Backslash, ";">>
    /\ output = <<" ", Backslash, ";">>

\* A lower-case identifier without blanks around it.
LowerTrimmed(s) ==
    /\ \A k \in 1..Len(s) : s[k] # "A"
    /\ (s # <<>>) => (s[1] # " " /\ s[Len(s)] # " ")

\* C34: Channel and Username give the same result when applied to their own
\* result; Channel's result is lower case, trimmed and begins with '#';
\* Username's result is lower case, trimmed and does not begin with '#'.
C34_NormalizationIdempotent ==
    /\ []((fn = "Channel") => (LowerTrimmed(output) /\ HasPrefix(output, <<"#">>)))
    /\ []((fn = "Username") => (LowerTrimmed(output) /\ ~HasPrefix(output, <<"#">>)))
    /\ [][ (fn' \in {"Channel, Channel", "Username, Username"}) => (output' = output) ]_vars

\* C35: sendMessage terminates for every text: a call that is between two
\* parts of a long text, in its sleep or about to send the rest, returns.
C35_SendMessageTerminates ==
    (say.pc \in {"sleep", "rest"}) ~> (say.pc = "done")

\* The sockets that are open, and the read loops that have not returned.
OpenSockets == { i \in ConnIds : sock[i] = "open" }
RunningLoops == { i \in ConnIds : loopPc[i] # "none" }

\* C36: at most one socket is open and at most one read loop is running,
\* and every open socket is the one state.ws names.
C36_OneSocketOneLoop ==
    /\ Cardinality(OpenSockets) <= 1
    /\ Cardinality(RunningLoops) <= 1
    /\ \A i \in OpenSockets : ws = i

\* C37: no operation uses an absent socket handle, and the failure path of
\* a read loop clears state.ws only when it is absent already or names the
\* socket that loop was reading.
C37_NoAbsentHandleUsed ==
    /\ [](ret # "panic")
    /\ [][ (op' = "handleError")
           => \E i \in ConnIds : /\ loopPc[i] = "read"
                                 /\ loopPc'[i] = "none"
                                 /\ ws \in {NoConn, loopRd[i]} ]_vars

\* C38: a loss of the connection is reported once: Disconnect() on a
\* connected client and a run of the failure path each emit at most one
\* 'disconnected' event, and the failure path that ends the read loop right
\* after a Disconnect() that reported the loss emits none.
C38_OneDisconnectedPerLoss ==
    [][ /\ (op' = "Disconnect" /\ ws # NoConn) => (CountOf(events', "disconnected") = 1)
        /\ (op' = "handleError") => (CountOf(events', "disconnected") <= 1)
        /\ (op = "Disconnect" /\ InSeq(events, "disconnected") /\ op' = "handleError")
             => (CountOf(events', "disconnected") = 0) ]_vars

\* The rooms that wait in a join queue.
QueuedRooms == UNION { SetOf(joinTimers[k].rooms) : k \in 1..Len(joinTimers) }

\* C39: no joined room is dropped: a room that is recorded as joined or
\* waits in a join queue is, after any step, still recorded, queued or
\* configured (so that the next final welcome queues it), or a JOIN for it
\* was written in that step.
C39_NoJoinedRoomDropped ==
    [][ \A r \in Rooms :
          (r \in SetOf(channels) \cup QueuedRooms)
          => \/ r \in SetOf(channels') \cup QueuedRooms' \cup SetOf(optsChannels')
             \/ InSeq(written', <<"JOIN", r>>) ]_vars

\* The room-mode specification: ROOMSTATE messages whose slow tag is absent,
\* 0, 1 or 30 and whose followers-only tag is absent, -1, 0, 1 or 10.
RoomModeMessages ==
    { Msg("376", "", "", FALSE) } \cup
    { [cmd |-> "ROOMSTATE", room |-> r, nick |-> "", flag |-> FALSE,
       slow |-> s, followers |-> f] :
        r \in Rooms, s \in {"absent", "0", "1", "30"},
        f \in {"absent", "-1", "0", "1", "10"} }

NextRoomModes ==
    \/ CallerConnect
    \/ ReconnectTimerFire
    \/ Tick
    \/ \E i \in ConnIds : LoopSelect(i)
    \/ \E i \in ConnIds : ReadError(i)
    \/ \E i \in ConnIds, m \in RoomModeMessages : Recv(i, m)
    \/ NetworkFail

SpecRoomModes == InitPing /\ [][NextRoomModes]_vars

\* The slow values N >= 1 and the followers-only values M >= 0 the server
\* sends in the room-mode specification.
SlowSeconds == {"1", "30"}
FollowersMinutes == {"0", "1", "10"}

\* The events of the step say slow mode is on (enabled = true, with the
\* '_promiseSlow' that accompanies it) or off (enabled = false).
SlowOn(evs) == InSeq(evs, "slow") /\ InSeq(evs, "_promiseSlow")
SlowOff(evs) == InSeq(evs, "slow") /\ InSeq(evs, "_promiseSlowoff")
FollowersOn(evs) == InSeq(evs, "followersonly") /\ InSeq(evs, "_promiseFollowers")
FollowersOff(evs) == InSeq(evs, "followersonly") /\ InSeq(evs, "_promiseFollowersoff")

\* C40: a ROOMSTATE that carries slow=N emits the slow event with enabled
\* true for every N >= 1 and with enabled false for N = 0; one that carries
\* followers-only=M emits the followers event with enabled true for every
\* M >= 0 and with enabled false for M = -1.  The tag a message carried is
\* read from the value it left as the last seen one of its room.
C40_RoomModeEvents ==
    [][ op' = "ROOMSTATE" =>
          \A r \in Rooms :
              /\ (roomSeen'[r].slow # roomSeen[r].slow) =>
                    /\ (roomSeen'[r].slow \in SlowSeconds) => SlowOn(events')
                    /\ (roomSeen'[r].slow = "0") => SlowOff(events')
              /\ (roomSeen'[r].followers # roomSeen[r].followers) =>
                    /\ (roomSeen'[r].followers \in FollowersMinutes)
                          => FollowersOn(events')
                    /\ (roomSeen'[r].followers = "-1") => FollowersOff(events') ]_vars

====
